---- MODULE Spec2Model ----
(***************************************************************************)
(* Traffic visualization client: the snapshot client                       *)
(* (api_connection_traffic.js), the reconciliation and interpolation       *)
(* engine and the render loop of the Phong city scene (traffic_agents.js,  *)
(* latest variant, poll interval 500 ms).                                  *)
(*                                                                         *)
(* Units.  Coordinates are fixed-point hundredths of a cell (1.0 = 100),   *)
(* so CAR_Y_OFFSET 0.30 = 30, CAR_Z_OFFSET -0.15 = -15 and the movement    *)
(* epsilon 0.01 = 1.  Angles are integer degrees (Math.PI = 180).  Times   *)
(* are milliseconds.  The interpolation fraction is kept as its numerator  *)
(* over `duration` (fract = fractNum / duration).                          *)
(* JavaScript objects live in `heap` (reference -> fields); arrays and the *)
(* scene hold references, so "the same object" is equality of references.  *)
(* undefined is the empty tuple << >>; a defined angle a is <<a>>.         *)
(***************************************************************************)
EXTENDS Integers, Sequences, FiniteSets, TLC

VARIABLES
    pc,              \* position of main()/drawScene(): which await is pending
    heap,            \* reference -> object fields
    cars,            \* api: const cars = []            (references)
    trafficLights,   \* api: const trafficLights = []
    obstacles,       \* api: const obstacles = []
    roads,           \* api: const roads = []
    destinations,    \* api: const destinations = []
    sceneObjects,    \* scene.objects                    (references)
    trafficLightSpheres, \* Map light id -> sphere reference
    loaded,          \* names of the 3D models preloadModel returned non-null for
    elapsed,         \* let elapsed
    then,            \* let then
    fractNum,        \* drawScene's local fract, as numerator over duration
    rafPending,      \* requestAnimationFrame(drawScene) is registered and not yet run
    escaped,         \* an exception left initTrafficModel/update/getCars/getTrafficLights
    lastKind,        \* outcome of the network call whose response was handled last
    lastCars,        \* most recent cars snapshot successfully received (<<snapshot>>)
    lastLights,      \* most recent traffic-lights snapshot successfully received
    sameCars,        \* the poll under way or just reconciled applied the cars snapshot applied before it
    files,           \* obj_loader: what the server holds for <name>.obj / <name>.mtl
    modelCache,      \* obj_loader: const modelCache = new Map()  (cacheKey -> handle)
    models,          \* obj_loader: the cachedModel objects created so far (handle = index)
    pending,         \* obj_loader: preloadModel calls that have not returned yet
    returned,        \* obj_loader: the preloadModel call that returned last
    probe            \* a helper function applied on its own: arguments and result

vars == <<pc, heap, cars, trafficLights, obstacles, roads, destinations,
          sceneObjects, trafficLightSpheres, loaded, elapsed, then, fractNum,
          rafPending, escaped, lastKind, lastCars, lastLights, sameCars,
          files, modelCache, models, pending, returned, probe>>

\* What main(), drawScene() and the api functions never touch.
aside == <<files, modelCache, models, pending, returned, probe>>

----------------------------------------------------------------------------
(* Bounds of the model *)

MaxSnapLen == 2

(* Program constants *)

duration == 500
PI == 180
CAR_Y_OFFSET == 30
CAR_Z_OFFSET == 0 - 15
EPSILON == 1

CAR_MODELS == <<"redCarBlendobj", "ClassicCarBlend">>
BUILDING_MODELS == <<"Building1", "PuestoJochos">>
TRAFFIC_LIGHT_MODEL == "Semaforo"
DESTINATION_MODEL == "EstacionamientoObjetivo"
TREE_MODEL == "ArbolBlend"
CubeMesh == "baseCube"
NoMesh == "undefined"

Undefined == << >>
NoDirection == "undefined"

DIRECTION_ROTATIONS ==
    [Up |-> PI, Down |-> 0, Left |-> PI \div 2, Right |-> 0 - (PI \div 2)]

DirectionNames == {"Up", "Down", "Left", "Right"}

Red == <<100, 0, 0, 100>>
Green == <<0, 100, 0, 100>>
RandomColor == <<0, 0, 0, 0>>

----------------------------------------------------------------------------
(* Small helpers *)

Abs(n) == IF n < 0 THEN 0 - n ELSE n
Min(a, b) == IF a < b THEN a ELSE b
Range(s) == {s[i] : i \in 1..Len(s)}

RECURSIVE SeqsUpTo(_, _)
SeqsUpTo(S, n) ==
    IF n = 0 THEN {<< >>}
    ELSE LET shorter == SeqsUpTo(S, n - 1)
         IN  shorter \cup {Append(s, e) : s \in {t \in shorter : Len(t) = n - 1}, e \in S}

Truthy(id) == id # ""

----------------------------------------------------------------------------
(* Object3D (libs/object3d.js) and Scene3D (libs/scene3d.js)               *)

\* new Object3D(id, [x, y, z]): rotation 0, no mesh yet, a random colour.
\* `kind` records which constructor site made the object (its category).
Object3D(kind, id, pos) ==
    [kind |-> kind, id |-> id, position |-> pos, oldPosArray |-> Undefined,
     direction |-> NoDirection, futurePos |-> Undefined, vao |-> NoMesh,
     renderPos |-> Undefined, currentRotY |-> Undefined, targetRotY |-> Undefined,
     rotRadY |-> 0, state |-> FALSE, color |-> RandomColor,
     diffuseColor |-> Undefined, ambientColor |-> Undefined,
     matrix |-> Undefined]

\* A coordinate that is not a number: a field the JSON entry lacks reads as
\* undefined, and undefined + n is NaN.  Outside every coordinate in use.
NotANumber == 0 - 1000000

\* a + b on numbers that may be undefined or NaN.
Add(a, b) == IF a = NotANumber \/ b = NotANumber THEN NotANumber ELSE a + b

\* get posArray(): a fresh array [position.x, position.y, position.z].
PosArray(o) == o.position

\* The reference `new` returns: one no object alive at the call holds.
Alloc(h) ==
    CHOOSE n \in 1..(Cardinality(DOMAIN h) + 1) :
        n \notin DOMAIN h /\ \A m \in 1..(n - 1) : m \in DOMAIN h

Extend(h, ref, o) == [r \in DOMAIN h \cup {ref} |-> IF r = ref THEN o ELSE h[r]]

\* scene.addObject(object): appended unless an entity of that identity is there.
AddObject(h, objs, ref) ==
    IF \E i \in 1..Len(objs) : h[objs[i]].id = h[ref].id THEN objs
    ELSE Append(objs, ref)

\* scene.removeObject(object): the entity of that identity is taken out.
RemoveObject(h, objs, ref) ==
    SelectSeq(objs, LAMBDA r : h[r].id # h[ref].id)

----------------------------------------------------------------------------
(* api_connection_traffic.js                                               *)

\* How a network call can end: the fetch rejects, the response is not OK,
\* the body has no positions list, or a snapshot arrives.
ResponseKinds == {"ok", "reject", "notOk", "noPositions"}
FailureKinds == ResponseKinds \ {"ok"}

Response(kind, positions) == [kind |-> kind, positions |-> positions]

IdsOf(positions) == {positions[i].id : i \in 1..Len(positions)}

\* cars.find(o => o.id == car.id): the first match, 0 for undefined.
Find_NeverMatches(h, refs, id) == 0

Find(h, refs, id) ==
    LET hits == {i \in 1..Len(refs) : h[refs[i]].id = id}
    IN  IF hits = {} THEN 0
        ELSE refs[CHOOSE i \in hits : \A j \in hits : i <= j]

\* getCars, removal loop: splice out every tracked car whose id the server
\* no longer lists.
RetireAbsentCars_ByPosition(h, cs, positions) ==
    SelectSeq(cs, LAMBDA r :
        \E i \in 1..Len(positions) :
            <<positions[i].x, positions[i].y, positions[i].z>> = h[r].position)

RetireAbsentCars(h, cs, positions) ==
    SelectSeq(cs, LAMBDA r : h[r].id \in IdsOf(positions))

\* getCars with the branch current_car != undefined left out.
UpdateTrackedCar_Ignored(o, car) == o

\* getCars, branch current_car != undefined.
UpdateTrackedCar_Aliased(o, car) ==
    [o EXCEPT !.position = <<car.x, car.y, car.z>>,
              !.oldPosArray = <<car.x, car.y, car.z>>,
              !.direction = car.direction,
              !.futurePos = <<car.futureX, car.y, car.futureZ>>]

UpdateTrackedCar(o, car) ==
    [o EXCEPT !.oldPosArray = PosArray(o),
              !.position = <<car.x, car.y, car.z>>,
              !.direction = car.direction,
              !.futurePos = <<car.futureX, car.y, car.futureZ>>]

\* getCars, else branch: a car the client has not tracked yet.
NewCar_NoOldPos(car) ==
    [Object3D("car", car.id, <<car.x, car.y, car.z>>) EXCEPT
        !.direction = car.direction,
        !.futurePos = <<car.futureX, car.y, car.futureZ>>,
        !.color = Red]

NewCar(car) ==
    [Object3D("car", car.id, <<car.x, car.y, car.z>>) EXCEPT
        !.oldPosArray = <<car.x, car.y, car.z>>,
        !.direction = car.direction,
        !.futurePos = <<car.futureX, car.y, car.futureZ>>,
        !.color = Red]

RECURSIVE ApplyCarEntries(_, _, _)
ApplyCarEntries(st, positions, i) ==
    IF i > Len(positions) THEN st
    ELSE LET car == positions[i]
             current_car == Find(st.heap, st.cars, car.id)
             ref == Alloc(st.heap)
         IN  IF current_car # 0
             THEN ApplyCarEntries(
                    [st EXCEPT !.heap[current_car] =
                                   UpdateTrackedCar(st.heap[current_car], car)],
                    positions, i + 1)
             ELSE ApplyCarEntries(
                    [heap |-> Extend(st.heap, ref, NewCar(car)),
                     cars |-> Append(st.cars, ref)],
                    positions, i + 1)

\* async function getCars(): the state of (heap, cars) once it has returned.
GetCars_FailureClears(h, cs, resp) ==
    IF resp.kind = "ok"
    THEN ApplyCarEntries(
            [heap |-> h, cars |-> RetireAbsentCars(h, cs, resp.positions)],
            resp.positions, 1)
    ELSE [heap |-> h, cars |-> << >>]

GetCars(h, cs, resp) ==
    IF resp.kind = "ok"
    THEN ApplyCarEntries(
            [heap |-> h, cars |-> RetireAbsentCars(h, cs, resp.positions)],
            resp.positions, 1)
    ELSE [heap |-> h, cars |-> cs]

LightColor(state) == IF state THEN Green ELSE Red

NewLight(light) ==
    [Object3D("light", light.id, <<light.x, light.y, light.z>>) EXCEPT
        !.state = light.state, !.color = LightColor(light.state)]

RECURSIVE CreateLights(_, _, _)
CreateLights(st, positions, i) ==
    IF i > Len(positions) THEN st
    ELSE LET ref == Alloc(st.heap)
         IN  CreateLights(
                [heap |-> Extend(st.heap, ref, NewLight(positions[i])),
                 lights |-> Append(st.lights, ref)],
                positions, i + 1)

RECURSIVE UpdateLights(_, _, _, _)
UpdateLights(h, ls, positions, i) ==
    IF i > Len(positions) THEN h
    ELSE LET light == positions[i]
             current_light == Find(h, ls, light.id)
         IN  IF current_light # 0
             THEN UpdateLights(
                    [h EXCEPT ![current_light].state = light.state,
                              ![current_light].color = LightColor(light.state)],
                    ls, positions, i + 1)
             ELSE UpdateLights(h, ls, positions, i + 1)

\* getTrafficLights rebuilding the tracked list from every snapshot.
GetTrafficLights_Retracked(h, ls, resp) ==
    IF resp.kind # "ok" THEN [heap |-> h, lights |-> ls]
    ELSE CreateLights([heap |-> h, lights |-> << >>], resp.positions, 1)

\* async function getTrafficLights()
GetTrafficLights(h, ls, resp) ==
    IF resp.kind # "ok" THEN [heap |-> h, lights |-> ls]
    ELSE IF Len(ls) = 0
         THEN CreateLights([heap |-> h, lights |-> ls], resp.positions, 1)
         ELSE [heap |-> UpdateLights(h, ls, resp.positions, 1), lights |-> ls]

\* getObstacles / getRoads / getDestinations: every entry becomes an object.
RECURSIVE CreateStatic(_, _, _, _)
CreateStatic(st, kind, positions, i) ==
    IF i > Len(positions) THEN st
    ELSE LET e == positions[i]
             ref == Alloc(st.heap)
         IN  CreateStatic(
                [heap |-> Extend(st.heap, ref, Object3D(kind, e.id, <<e.x, e.y, e.z>>)),
                 list |-> Append(st.list, ref)],
                kind, positions, i + 1)

GetStatic(h, list, kind, resp) ==
    IF resp.kind # "ok" THEN [heap |-> h, list |-> list]
    ELSE CreateStatic([heap |-> h, list |-> list], kind, resp.positions, 1)

----------------------------------------------------------------------------
(* traffic_agents.js: interpolation helpers                                *)

\* The models preloadAllModels kept: let carModels = [] after the pushes.
CarModels(ld) == SelectSeq(CAR_MODELS, LAMBDA name : name \in ld)
CarVAOs(ld) == Range(CarModels(ld))

\* function lerp(start, end, t), t = tn / duration.
Lerp_Rounded(start, end, tn) ==
    IF 2 * tn >= duration THEN end ELSE start

Lerp(start, end, tn) == start + ((end - start) * tn) \div duration

RECURSIVE NormalizeDiff(_)
NormalizeDiff(diff) ==
    IF diff > PI THEN NormalizeDiff(diff - 2 * PI)
    ELSE IF diff < 0 - PI THEN NormalizeDiff(diff + 2 * PI)
    ELSE diff

\* lerpAngle without its two while loops.
LerpAngle_Unwrapped(start, end, tn) ==
    start + ((end - start) * tn) \div duration

\* function lerpAngle(start, end, t), t = tn / duration.
LerpAngle(start, end, tn) ==
    start + (NormalizeDiff(end - start) * tn) \div duration

\* Math.atan of a / b for 0 <= a <= b, b > 0, in degrees
\* (a/b * (45 + 15.642 * (1 - a/b)), exact at 0 and at 1).
AtanDeg(a, b) == (a * (45000 * b + 15642 * (b - a))) \div (1000 * b * b)

FirstQuadrant(y, x) ==
    IF y <= x THEN AtanDeg(y, x) ELSE (PI \div 2) - AtanDeg(x, y)

\* Math.atan2(y, x) in degrees.
Atan2(y, x) ==
    IF x = 0 /\ y = 0 THEN 0
    ELSE LET q == FirstQuadrant(Abs(y), Abs(x))
         IN  IF x >= 0 /\ y >= 0 THEN q
             ELSE IF x < 0 /\ y >= 0 THEN PI - q
             ELSE IF x < 0 THEN q - PI
             ELSE 0 - q

\* function updateCarRotation(car)
UpdateCarRotation_HeadingFirst(car) ==
    IF car.direction \in DirectionNames
    THEN [car EXCEPT !.targetRotY = <<DIRECTION_ROTATIONS[car.direction]>>]
    ELSE car

UpdateCarRotation(car) ==
    IF car.oldPosArray # Undefined
    THEN LET dx == PosArray(car)[1] - car.oldPosArray[1]
             dz == PosArray(car)[3] - car.oldPosArray[3]
         IN  IF Abs(dx) > EPSILON \/ Abs(dz) > EPSILON
             THEN [car EXCEPT !.targetRotY = <<Atan2(dx, dz)>>]
             ELSE car
    ELSE IF car.direction \in DirectionNames
         THEN [car EXCEPT !.targetRotY = <<DIRECTION_ROTATIONS[car.direction]>>]
         ELSE car

\* updateCars, first loop: the car-model entities of the scene whose id is no
\* longer tracked are removed from the scene.
RECURSIVE RemoveAll(_, _, _, _)
RemoveAll(h, objs, victims, i) ==
    IF i > Len(victims) THEN objs
    ELSE RemoveAll(h, RemoveObject(h, objs, victims[i]), victims, i + 1)

\* updateCars' first loop without the carVAOs test.
RetireFromScene_AnyMesh(h, objs, cs, ld) ==
    LET currentCarIds == {h[cs[i]].id : i \in 1..Len(cs)}
        carsInScene == SelectSeq(objs, LAMBDA r : Truthy(h[r].id))
        gone == SelectSeq(carsInScene, LAMBDA r : h[r].id \notin currentCarIds)
    IN  RemoveAll(h, objs, gone, 1)

RetireFromScene(h, objs, cs, ld) ==
    LET currentCarIds == {h[cs[i]].id : i \in 1..Len(cs)}
        carsInScene == SelectSeq(objs, LAMBDA r :
                           Truthy(h[r].id) /\ h[r].vao \in CarVAOs(ld))
        gone == SelectSeq(carsInScene, LAMBDA r : h[r].id \notin currentCarIds)
    IN  RemoveAll(h, objs, gone, 1)

\* Math.floor(Math.random() * carModels.length), the draw being `rnd` in 1..2.
RandomCarModel(ld, rnd) == CarModels(ld)[((rnd - 1) % Len(CarModels(ld))) + 1]

\* updateCars, second loop: a tracked car with no mesh yet gets a car model and
\* enters the scene; every tracked car has its target yaw recomputed.
RECURSIVE AddAndRotate(_, _, _, _, _)
AddAndRotate(st, cs, ld, pick, i) ==
    IF i > Len(cs) THEN st
    ELSE LET ref == cs[i]
             car == st.heap[ref]
             fresh == car.vao = NoMesh /\ Len(CarModels(ld)) > 0
             dressed == IF fresh
                        THEN [car EXCEPT !.vao = RandomCarModel(ld, pick[i]),
                                         !.currentRotY = <<0>>,
                                         !.targetRotY = <<0>>]
                        ELSE car
             h1 == [st.heap EXCEPT ![ref] = dressed]
             objs1 == IF fresh THEN AddObject(h1, st.objects, ref) ELSE st.objects
         IN  AddAndRotate(
                [heap |-> [h1 EXCEPT ![ref] = UpdateCarRotation(dressed)],
                 objects |-> objs1],
                cs, ld, pick, i + 1)

\* function updateCars()
UpdateCars(h, objs, cs, ld, pick) ==
    AddAndRotate([heap |-> h, objects |-> RetireFromScene(h, objs, cs, ld)],
                 cs, ld, pick, 1)

\* interpolateCars, loop body for one car; fn is fract's numerator.
InterpolateCar_AllAxes(car, fn) ==
    [car EXCEPT !.renderPos =
        <<Lerp(car.oldPosArray[1], PosArray(car)[1], fn),
          Lerp(car.oldPosArray[2], PosArray(car)[2], fn),
          Lerp(car.oldPosArray[3], PosArray(car)[3], fn)>>]

\* interpolateCars' loop body with the yaw interpolated by `fract` itself.
InterpolateCar_SameFactor(car, fn) ==
    IF car.oldPosArray = Undefined THEN car
    ELSE LET oldPos == car.oldPosArray
             currentPos == PosArray(car)
             interpX == Lerp(oldPos[1], currentPos[1], fn)
             interpZ == Lerp(oldPos[3], currentPos[3], fn)
             interpY == currentPos[2]
             moved == [car EXCEPT !.renderPos =
                          <<interpX, Add(interpY, CAR_Y_OFFSET), interpZ + CAR_Z_OFFSET>>]
         IN  IF car.targetRotY # Undefined
             THEN LET from == IF car.currentRotY = Undefined THEN 0
                              ELSE car.currentRotY[1]
                      rot == LerpAngle(from, car.targetRotY[1], fn)
                  IN  [moved EXCEPT !.currentRotY = <<rot>>, !.rotRadY = rot]
             ELSE moved

InterpolateCar(car, fn) ==
    IF car.oldPosArray = Undefined THEN car
    ELSE LET oldPos == car.oldPosArray
             currentPos == PosArray(car)
             interpX == Lerp(oldPos[1], currentPos[1], fn)
             interpZ == Lerp(oldPos[3], currentPos[3], fn)
             interpY == currentPos[2]
             moved == [car EXCEPT !.renderPos =
                          <<interpX, Add(interpY, CAR_Y_OFFSET), interpZ + CAR_Z_OFFSET>>]
         IN  IF car.targetRotY # Undefined
             THEN LET from == IF car.currentRotY = Undefined THEN 0
                              ELSE car.currentRotY[1]
                      rot == LerpAngle(from, car.targetRotY[1],
                                       Min(fn * 2, duration))
                  IN  [moved EXCEPT !.currentRotY = <<rot>>, !.rotRadY = rot]
             ELSE moved

\* function interpolateCars(fract)
InterpolateCars(h, cs, fn) ==
    [r \in DOMAIN h |->
        IF r \in Range(cs) THEN InterpolateCar(h[r], fn) ELSE h[r]]

\* Indicator colours of updateTrafficLightSpheres / setupObjects.
SphereColor(state) == IF state THEN <<20, 100, 20, 100>> ELSE <<100, 20, 10, 100>>
SphereDiffuse(state) == IF state THEN <<30, 120, 30, 100>> ELSE <<120, 30, 15, 100>>
SphereAmbient(state) == IF state THEN <<10, 50, 10, 100>> ELSE <<50, 10, 5, 100>>

\* function updateTrafficLightSpheres()
UpdateTrafficLightSpheres(h, ls, spheres) ==
    [r \in DOMAIN h |->
        IF \E i \in 1..Len(ls) :
              h[ls[i]].id \in DOMAIN spheres /\ spheres[h[ls[i]].id] = r
        THEN LET i == CHOOSE j \in 1..Len(ls) :
                        /\ h[ls[j]].id \in DOMAIN spheres
                        /\ spheres[h[ls[j]].id] = r
                        /\ \A k \in (j + 1)..Len(ls) : h[ls[k]].id # h[ls[j]].id
                 light == h[ls[i]]
             IN  [h[r] EXCEPT !.color = SphereColor(light.state),
                              !.diffuseColor = SphereDiffuse(light.state),
                              !.ambientColor = SphereAmbient(light.state)]
        ELSE h[r]]

\* drawObject: the translation it builds the world matrix from.
DrawObject(o) ==
    [o EXCEPT !.matrix = IF o.renderPos # Undefined THEN o.renderPos
                         ELSE PosArray(o)]

DrawAll(h, objs) ==
    [r \in DOMAIN h |-> IF r \in Range(objs) THEN DrawObject(h[r]) ELSE h[r]]

----------------------------------------------------------------------------
(* traffic_agents.js: setupObjects                                         *)

MAX_PUESTO_JOCHOS == 3
DEST_Y_OFFSET == 30
LIGHT_MODEL_Y == 250
SPHERE_Y_OFFSET == 80
TREE_Y_OFFSET == 20
PUESTO_Y_OFFSET == 15

\* Math.round of a coordinate, in whole cells.
Round(v) == (v + 50) \div 100

CellKey(pos) == <<Round(pos[1]), Round(pos[3])>>

Place(st, o) ==
    LET ref == Alloc(st.heap)
        h1 == Extend(st.heap, ref, o)
    IN  [st EXCEPT !.heap = h1, !.objects = AddObject(h1, st.objects, ref)]

\* for (const road of roads)
RECURSIVE SetupRoads(_, _, _)
SetupRoads(st, rs, i) ==
    IF i > Len(rs) THEN st
    ELSE LET h1 == [st.heap EXCEPT ![rs[i]].vao = CubeMesh,
                                   ![rs[i]].color = <<25, 25, 27, 100>>]
         IN  SetupRoads([st EXCEPT !.heap = h1,
                                   !.objects = AddObject(h1, st.objects, rs[i])],
                        rs, i + 1)

\* for (const group of obstacleGroups): the obstacles of the model's city are
\* pairwise non-adjacent, so groupContiguousObstacles returns one group per obstacle.
RECURSIVE SetupObstacles(_, _, _, _, _, _)
SetupObstacles(st, obs, ds, ld, trees, i) ==
    IF i > Len(obs) THEN st
    ELSE LET o == st.heap[obs[i]]
             destinationPositions == {CellKey(st.heap[ds[k]].position) : k \in 1..Len(ds)}
             c == CellKey(o.position)
             hasAdjacentDestination ==
                 \E d \in {<<0, 0>>, <<1, 0>>, <<0 - 1, 0>>, <<0, 1>>, <<0, 0 - 1>>} :
                     <<c[1] + d[1], c[2] + d[2]>> \in destinationPositions
             grass == [Object3D("grass", "grass_" \o o.id, o.position) EXCEPT
                          !.vao = CubeMesh, !.color = <<22, 45, 22, 100>>]
             st1 == Place(st, grass)
             tree == [Object3D("tree", "tree_" \o o.id \o "_0",
                               <<o.position[1], o.position[2] + TREE_Y_OFFSET,
                                 o.position[3]>>) EXCEPT !.vao = TREE_MODEL]
             st2 == IF TREE_MODEL \in ld /\ trees[i] THEN Place(st1, tree) ELSE st1
             puesto == "PuestoJochos" \in ld
             builds == /\ ~hasAdjacentDestination
                       /\ Range(BUILDING_MODELS) \cap ld # {}
                       /\ st.puestoJochosCount < MAX_PUESTO_JOCHOS
                       /\ puesto
             building == [Object3D("building",
                                   "building_" \o ToString(st.buildingIndex + 1),
                                   <<o.position[1], o.position[2] + PUESTO_Y_OFFSET,
                                     o.position[3]>>) EXCEPT
                             !.vao = "PuestoJochos", !.color = <<80, 80, 80, 100>>]
             st3 == IF builds
                    THEN [Place(st2, building) EXCEPT
                             !.buildingIndex = st.buildingIndex + 1,
                             !.puestoJochosCount = st.puestoJochosCount + 1]
                    ELSE st2
         IN  SetupObstacles(st3, obs, ds, ld, trees, i + 1)

\* for (const light of trafficLights)
RECURSIVE SetupLights(_, _, _, _)
SetupLights(st, ls, ld, i) ==
    IF i > Len(ls) THEN st
    ELSE LET light == st.heap[ls[i]]
             roadUnderLight == [Object3D("roadLight", "road_light_" \o light.id,
                                         light.position) EXCEPT
                                   !.vao = CubeMesh, !.color = <<40, 40, 40, 100>>]
             st1 == Place(st, roadUnderLight)
             dressed == IF TRAFFIC_LIGHT_MODEL \in ld
                        THEN [light EXCEPT !.vao = TRAFFIC_LIGHT_MODEL,
                                           !.position[2] = LIGHT_MODEL_Y]
                        ELSE [light EXCEPT !.vao = CubeMesh]
             h2 == [st1.heap EXCEPT ![ls[i]] = dressed]
             st2 == [st1 EXCEPT !.heap = h2,
                                !.objects = AddObject(h2, st1.objects, ls[i])]
             lightSphere == [Object3D("sphere", "light_sphere_" \o light.id,
                                      <<dressed.position[1],
                                        dressed.position[2] + SPHERE_Y_OFFSET,
                                        dressed.position[3]>>) EXCEPT
                                !.vao = CubeMesh,
                                !.color = SphereColor(light.state),
                                !.diffuseColor = SphereDiffuse(light.state),
                                !.ambientColor = SphereAmbient(light.state)]
             sref == Alloc(st2.heap)
             st3 == Place(st2, lightSphere)
         IN  SetupLights(
                [st3 EXCEPT !.spheres =
                    [k \in DOMAIN st3.spheres \cup {light.id} |->
                        IF k = light.id THEN sref ELSE st3.spheres[k]]],
                ls, ld, i + 1)

\* The yaw that turns a destination towards the closest road cell.
DestinationRotation(h, rs, pos) ==
    LET near == {k \in 1..Len(rs) :
                    Abs(h[rs[k]].position[1] - pos[1])
                    + Abs(h[rs[k]].position[3] - pos[3]) < 150}
        dist(k) == Abs(h[rs[k]].position[1] - pos[1])
                   + Abs(h[rs[k]].position[3] - pos[3])
    IN  IF near = {} THEN 0
        ELSE LET k == CHOOSE n \in near :
                          \A m \in near : dist(n) < dist(m) \/ (dist(n) = dist(m) /\ n <= m)
                 dx == h[rs[k]].position[1] - pos[1]
                 dz == h[rs[k]].position[3] - pos[3]
             IN  IF Abs(dx) > Abs(dz)
                 THEN (IF dx > 0 THEN 0 - (PI \div 2) ELSE PI \div 2)
                 ELSE (IF dz > 0 THEN PI ELSE 0)

\* for (const dest of destinations)
RECURSIVE SetupDestinations(_, _, _, _, _)
SetupDestinations(st, ds, rs, ld, i) ==
    IF i > Len(ds) THEN st
    ELSE LET dest == st.heap[ds[i]]
             dressed == IF DESTINATION_MODEL \in ld
                        THEN [dest EXCEPT
                                 !.vao = DESTINATION_MODEL,
                                 !.position[2] = dest.position[2] + DEST_Y_OFFSET,
                                 !.rotRadY = DestinationRotation(st.heap, rs, dest.position)]
                        ELSE [dest EXCEPT !.vao = CubeMesh]
             h1 == [st.heap EXCEPT ![ds[i]] = dressed]
         IN  SetupDestinations(
                [st EXCEPT !.heap = h1, !.objects = AddObject(h1, st.objects, ds[i])],
                ds, rs, ld, i + 1)

\* setupObjects, cars, else branch left out: no mesh is assigned.
CubeCar_Bare(car) == car

\* setupObjects, cars, else branch: no car model, the car gets the base cube.
CubeCar(car) == [car EXCEPT !.vao = CubeMesh]

\* for (const car of cars): the cars of the startup snapshot.
RECURSIVE SetupCars(_, _, _, _, _)
SetupCars(st, cs, ld, pick, i) ==
    IF i > Len(cs) THEN st
    ELSE LET car == st.heap[cs[i]]
             dressed ==
                 IF Len(CarModels(ld)) > 0
                 THEN UpdateCarRotation(
                        [car EXCEPT
                            !.vao = RandomCarModel(ld, pick[i]),
                            !.renderPos = <<car.position[1],
                                            Add(car.position[2], CAR_Y_OFFSET),
                                            car.position[3] + CAR_Z_OFFSET>>,
                            !.currentRotY = <<0>>,
                            !.targetRotY = <<0>>])
                 ELSE CubeCar(car)
             h1 == [st.heap EXCEPT ![cs[i]] = dressed]
         IN  SetupCars(
                [st EXCEPT !.heap = h1, !.objects = AddObject(h1, st.objects, cs[i])],
                cs, ld, pick, i + 1)

\* async function setupObjects(scene, gl, programInfo)
SetupObjects(h, rs, obs, ls, ds, cs, ld, trees, pick) ==
    LET st0 == [heap |-> h, objects |-> << >>, spheres |-> << >>,
                buildingIndex |-> 0, puestoJochosCount |-> 0]
        st1 == SetupRoads(st0, rs, 1)
        st2 == SetupObstacles(st1, obs, ds, ld, trees, 1)
        st3 == SetupLights(st2, ls, ld, 1)
        st4 == SetupDestinations(st3, ds, rs, ld, 1)
    IN  SetupCars(st4, cs, ld, pick, 1)

----------------------------------------------------------------------------
(* The inputs of the model: what the server answers, what loads, the clock *)

CarEntry(id, cell, dir) ==
    [id |-> id, x |-> cell[1], y |-> cell[2], z |-> cell[3], direction |-> dir,
     futureX |-> cell[1], futureZ |-> cell[3]]

CarEntries(ids, cells, dirs) ==
    {CarEntry(id, c, d) : id \in ids, c \in cells, d \in dirs}

LightEntry(id, cell, state) ==
    [id |-> id, x |-> cell[1], y |-> cell[2], z |-> cell[3], state |-> state]

StaticEntry(id, cell) ==
    [id |-> id, x |-> cell[1], y |-> cell[2], z |-> cell[3], direction |-> "Right"]

AllModels == Range(CAR_MODELS) \cup Range(BUILDING_MODELS)
             \cup {TRAFFIC_LIGHT_MODEL, DESTINATION_MODEL, TREE_MODEL}

Failed(kinds) == {Response(k, << >>) : k \in kinds}
Snapshots(S) == {Response("ok", p) : p \in S}

Picks == {[i \in 1..MaxSnapLen |-> m] : m \in 1..2}

City == [roads |-> <<StaticEntry("r1", <<0, 0, 0>>)>>,
         obstacles |-> <<StaticEntry("o1", <<300, 0, 300>>)>>,
         destinations |-> <<StaticEntry("d1", <<100, 0, 0>>)>>]

----------------------------------------------------------------------------
(* The state machine: main() up to the first frame, then drawScene          *)

\* Module scope of traffic_agents.js before main() runs.
InitPage ==
    /\ pc = "preloadAllModels"
    /\ heap = << >>
    /\ cars = << >>
    /\ trafficLights = << >>
    /\ obstacles = << >>
    /\ roads = << >>
    /\ destinations = << >>
    /\ sceneObjects = << >>
    /\ trafficLightSpheres = << >>
    /\ loaded = {}
    /\ elapsed = 0
    /\ then = 0
    /\ fractNum = 0
    /\ rafPending = FALSE
    /\ escaped = FALSE
    /\ lastKind = "none"
    /\ lastCars = << >>
    /\ lastLights = << >>
    /\ sameCars = FALSE

\* Module scope of obj_loader.js: an empty modelCache, no call under way.
InitLoader ==
    /\ files = << >>
    /\ modelCache = << >>
    /\ models = << >>
    /\ pending = << >>
    /\ returned = << >>

Init ==
    /\ InitPage
    /\ InitLoader
    /\ probe = << >>

timing == <<elapsed, then, fractNum, rafPending>>
statics == <<obstacles, roads, destinations>>
sceneVars == <<sceneObjects, trafficLightSpheres>>

\* Objects no array, map or scene refers to any more are gone.
Live(h, refs) == [r \in DOMAIN h \cap refs |-> h[r]]

Roots(cs, ls, obs, rs, ds, objs, spheres) ==
    Range(cs) \cup Range(ls) \cup Range(obs) \cup Range(rs) \cup Range(ds)
    \cup Range(objs) \cup {spheres[k] : k \in DOMAIN spheres}

\* Every api function wraps its body in try/catch: what it throws is logged.
TryCatch_Rethrown(thrown) == thrown

TryCatch(thrown) == FALSE

Thrown(resp) == resp.kind \in {"reject", "noPositions"}

\* await preloadAllModels(gl, phongProgramInfo)
PreloadAllModels(scenarios) ==
    /\ pc = "preloadAllModels"
    /\ \E ld \in scenarios : loaded' = ld
    /\ pc' = "initTrafficModel"
    /\ UNCHANGED <<heap, cars, trafficLights, statics, sceneVars, timing, escaped,
                   lastKind, lastCars, lastLights, sameCars>>
    /\ UNCHANGED aside

\* await initTrafficModel()
InitTrafficModel(responses) ==
    /\ pc = "initTrafficModel"
    /\ \E resp \in responses :
          /\ lastKind' = resp.kind
          /\ escaped' = (escaped \/ TryCatch(Thrown(resp)))
    /\ pc' = "main.getCars"
    /\ UNCHANGED <<heap, cars, trafficLights, statics, sceneVars, loaded, timing,
                   lastCars, lastLights, sameCars>>
    /\ UNCHANGED aside

\* await getCars(), from main() and from update()
GetCarsReturns(responses, from, to) ==
    /\ pc = from
    /\ \E resp \in responses :
          LET st == GetCars(heap, cars, resp)
          IN  /\ cars' = st.cars
              /\ heap' = Live(st.heap, Roots(st.cars, trafficLights, obstacles, roads,
                                             destinations, sceneObjects,
                                             trafficLightSpheres))
              /\ lastKind' = resp.kind
              /\ escaped' = (escaped \/ TryCatch(Thrown(resp)))
              /\ lastCars' = IF resp.kind = "ok" THEN <<resp.positions>> ELSE lastCars
              /\ sameCars' = (resp.kind = "ok" /\ lastCars = <<resp.positions>>)
    /\ pc' = to
    /\ UNCHANGED <<trafficLights, statics, sceneVars, loaded, timing, lastLights>>
    /\ UNCHANGED aside

\* await getObstacles() / getRoads(): main() goes on to the next request.
GetObstacles(responses) ==
    /\ pc = "getObstacles"
    /\ \E resp \in responses :
          LET st == GetStatic(heap, obstacles, "obstacle", resp)
          IN  /\ heap' = st.heap
              /\ obstacles' = st.list
              /\ lastKind' = resp.kind
              /\ escaped' = (escaped \/ TryCatch(Thrown(resp)))
    /\ pc' = "main.getTrafficLights"
    /\ UNCHANGED <<cars, trafficLights, roads, destinations, sceneVars, loaded,
                   timing, lastCars, lastLights, sameCars>>
    /\ UNCHANGED aside

GetRoads(responses) ==
    /\ pc = "getRoads"
    /\ \E resp \in responses :
          LET st == GetStatic(heap, roads, "road", resp)
          IN  /\ heap' = st.heap
              /\ roads' = st.list
              /\ lastKind' = resp.kind
              /\ escaped' = (escaped \/ TryCatch(Thrown(resp)))
    /\ pc' = "getDestinations"
    /\ UNCHANGED <<cars, trafficLights, obstacles, destinations, sceneVars, loaded,
                   timing, lastCars, lastLights, sameCars>>
    /\ UNCHANGED aside

\* await getTrafficLights() in main()
MainGetTrafficLights(responses) ==
    /\ pc = "main.getTrafficLights"
    /\ \E resp \in responses :
          LET st == GetTrafficLights(heap, trafficLights, resp)
          IN  /\ heap' = st.heap
              /\ trafficLights' = st.lights
              /\ lastKind' = resp.kind
              /\ escaped' = (escaped \/ TryCatch(Thrown(resp)))
              /\ lastLights' = IF resp.kind = "ok" THEN <<resp.positions>>
                               ELSE lastLights
    /\ pc' = "getRoads"
    /\ UNCHANGED <<cars, statics, sceneVars, loaded, timing, lastCars, sameCars>>
    /\ UNCHANGED aside

\* await getDestinations(); then setupScene(), setupObjects(), setupUI() and the
\* first call of drawScene().
GetDestinations(responses, treeDraws, picks) ==
    /\ pc = "getDestinations"
    /\ \E resp \in responses, trees \in treeDraws, pick \in picks :
          LET got == GetStatic(heap, destinations, "destination", resp)
              st == SetupObjects(got.heap, roads, obstacles, trafficLights, got.list,
                                 cars, loaded, trees, pick)
          IN  /\ destinations' = got.list
              /\ heap' = st.heap
              /\ sceneObjects' = st.objects
              /\ trafficLightSpheres' = st.spheres
              /\ lastKind' = resp.kind
              /\ escaped' = (escaped \/ TryCatch(Thrown(resp)))
    /\ pc' = "drawScene"
    /\ UNCHANGED <<cars, trafficLights, obstacles, roads, loaded, timing, lastCars,
                   lastLights, sameCars>>
    /\ UNCHANGED aside

\* fract without Math.min.
Fract_Unclamped(e) == e

\* let fract = Math.min(1.0, elapsed / duration), as numerator over duration.
Fract(e) == Min(duration, e)

\* A frame whose poll is due awaits update() before it registers the next frame.
FrameWhilePolling_Registered == TRUE

FrameWhilePolling == FALSE

\* drawScene carrying the time beyond the interval over to the next interval
\* (elapsed -= duration) instead of `elapsed = 0`.
DrawScene_CarriesOver(clock) ==
    /\ pc = "drawScene"
    /\ \E now \in clock :
          LET deltaTime == now - then
              total == elapsed + deltaTime
              fract == Fract(total)
              h1 == InterpolateCars(heap, cars, fract)
          IN  /\ then' = now
              /\ fractNum' = fract
              /\ heap' = DrawAll(h1, sceneObjects)
              /\ IF total >= duration
                 THEN /\ elapsed' = total - duration
                      /\ pc' = "update"
                      /\ rafPending' = FrameWhilePolling
                      /\ sameCars' = FALSE
                 ELSE /\ elapsed' = total
                      /\ pc' = "drawScene"
                      /\ rafPending' = TRUE
                      /\ sameCars' = sameCars
    /\ UNCHANGED <<cars, trafficLights, statics, sceneVars, loaded, escaped,
                   lastKind, lastCars, lastLights>>
    /\ UNCHANGED aside

\* async function drawScene(), up to `await update()` or to its end.
DrawScene(clock) ==
    /\ pc = "drawScene"
    /\ \E now \in clock :
          LET deltaTime == now - then
              total == elapsed + deltaTime
              fract == Fract(total)
              h1 == InterpolateCars(heap, cars, fract)
          IN  /\ then' = now
              /\ fractNum' = fract
              /\ heap' = DrawAll(h1, sceneObjects)
              /\ IF total >= duration
                 THEN /\ elapsed' = 0
                      /\ pc' = "update"
                      /\ rafPending' = FrameWhilePolling
                      /\ sameCars' = FALSE
                 ELSE /\ elapsed' = total
                      /\ pc' = "drawScene"
                      /\ rafPending' = TRUE
                      /\ sameCars' = sameCars
    /\ UNCHANGED <<cars, trafficLights, statics, sceneVars, loaded, escaped,
                   lastKind, lastCars, lastLights>>
    /\ UNCHANGED aside

\* drawScene without the two calls after `await update()`.
Reconciled_Skipped(h, objs, cs, ls, pick) ==
    [heap |-> h, objects |-> objs]

\* drawScene after `await update()`: updateCars(), updateTrafficLightSpheres(),
\* requestAnimationFrame(drawScene).
Reconciled(h, objs, cs, ls, pick) ==
    LET st == UpdateCars(h, objs, cs, loaded, pick)
        h1 == UpdateTrafficLightSpheres(st.heap, ls, trafficLightSpheres)
    IN  [heap |-> Live(h1, Roots(cs, ls, obstacles, roads, destinations, st.objects,
                                 trafficLightSpheres)),
         objects |-> st.objects]

\* update() without the `if (response.ok)` test: getCars() is requested
\* whatever the advance call answered.
UpdateFails_StillAsks(kinds, picks) ==
    /\ pc = "update"
    /\ \E kind \in kinds : lastKind' = kind
    /\ pc' = "update.getCars"
    /\ UNCHANGED <<heap, cars, trafficLights, statics, sceneVars, loaded, timing,
                   escaped, lastCars, lastLights, sameCars>>
    /\ UNCHANGED aside

\* update(): the advance call does not succeed; drawScene resumes at once.
UpdateFails(kinds, picks) ==
    /\ pc = "update"
    /\ \E kind \in kinds, pick \in picks :
          LET st == Reconciled(heap, sceneObjects, cars, trafficLights, pick)
          IN  /\ heap' = st.heap
              /\ sceneObjects' = st.objects
              /\ lastKind' = kind
              /\ escaped' = (escaped \/ TryCatch(kind = "reject"))
    /\ pc' = "drawScene"
    /\ rafPending' = TRUE
    /\ UNCHANGED <<cars, trafficLights, statics, trafficLightSpheres, loaded,
                   elapsed, then, fractNum, lastCars, lastLights, sameCars>>
    /\ UNCHANGED aside

\* update(): the advance call returns OK; getCars() is requested.
UpdateReturns ==
    /\ pc = "update"
    /\ pc' = "update.getCars"
    /\ lastKind' = "ok"
    /\ UNCHANGED <<heap, cars, trafficLights, statics, sceneVars, loaded, timing,
                   escaped, lastCars, lastLights, sameCars>>
    /\ UNCHANGED aside

\* update(): getTrafficLights() returns, update() resolves, drawScene resumes.
UpdateGetTrafficLights(responses, picks) ==
    /\ pc = "update.getTrafficLights"
    /\ \E resp \in responses, pick \in picks :
          LET got == GetTrafficLights(heap, trafficLights, resp)
              st == Reconciled(got.heap, sceneObjects, cars, got.lights, pick)
          IN  /\ trafficLights' = got.lights
              /\ heap' = st.heap
              /\ sceneObjects' = st.objects
              /\ lastKind' = resp.kind
              /\ escaped' = (escaped \/ TryCatch(Thrown(resp)))
              /\ lastLights' = IF resp.kind = "ok" THEN <<resp.positions>>
                               ELSE lastLights
    /\ pc' = "drawScene"
    /\ rafPending' = TRUE
    /\ UNCHANGED <<cars, statics, trafficLightSpheres, loaded, elapsed, then,
                   fractNum, lastCars, sameCars>>
    /\ UNCHANGED aside

----------------------------------------------------------------------------
(* Spec: reconciliation.  Two car ids (one of them the falsy ""), cars that  *)
(* change cell without moving on the ground plane, no traffic light, car     *)
(* models that load or do not.                                               *)

ReconCars ==
    Snapshots(SeqsUpTo(CarEntries({"", "c1"}, {<<0, 0, 0>>, <<0, 100, 0>>},
                                  {"Up"}), MaxSnapLen))
    \cup Failed({"reject"})

ReconLights == Failed({"notOk"})

ReconLoads == {AllModels \ {"redCarBlendobj"}, AllModels \ Range(CAR_MODELS)}

ReconClock == {1000, 1500}

FirstModel == {[i \in 1..MaxSnapLen |-> 1]}

Next ==
    \/ PreloadAllModels(ReconLoads)
    \/ InitTrafficModel(Failed({"ok"}))
    \/ GetCarsReturns(ReconCars, "main.getCars", "getObstacles")
    \/ GetObstacles(Snapshots({City.obstacles}))
    \/ MainGetTrafficLights(ReconLights)
    \/ GetRoads(Snapshots({City.roads}))
    \/ GetDestinations(Snapshots({City.destinations}), {<<FALSE>>}, FirstModel)
    \/ DrawScene(ReconClock)
    \/ UpdateFails({"reject"}, FirstModel)
    \/ UpdateReturns
    \/ GetCarsReturns(ReconCars, "update.getCars", "update.getTrafficLights")
    \/ UpdateGetTrafficLights(ReconLights, FirstModel)

Spec == Init /\ [][Next]_vars

----------------------------------------------------------------------------
(* SpecMotion: interpolation.  One car that moves between three cells and   *)
(* whose reported heading never agrees with its movement, a clock that      *)
(* steps by a quarter or half of the poll interval, both car models.        *)

MotionEntries ==
    {CarEntry("c1", <<0, 0, 0>>, "Right"),
     CarEntry("c1", <<100, 0, 0>>, "Up"),
     CarEntry("c1", <<0, 100, 100>>, NoDirection)}

MotionCars == Snapshots(SeqsUpTo(MotionEntries, MaxSnapLen)) \cup Failed({"notOk"})

MotionLoads == {AllModels, AllModels \ Range(CAR_MODELS)}

MotionClock == {1000, 1250, 1500, 1750, 2000}

NextMotion ==
    \/ PreloadAllModels(MotionLoads)
    \/ InitTrafficModel(Failed({"ok"}))
    \/ GetCarsReturns(MotionCars, "main.getCars", "getObstacles")
    \/ GetObstacles(Failed({"notOk"}))
    \/ MainGetTrafficLights(Failed({"notOk"}))
    \/ GetRoads(Failed({"notOk"}))
    \/ GetDestinations(Failed({"notOk"}), {<<FALSE>>}, Picks)
    \/ DrawScene({t \in MotionClock : t >= then})
    \/ UpdateFails({"notOk"}, Picks)
    \/ UpdateReturns
    \/ GetCarsReturns(MotionCars, "update.getCars", "update.getTrafficLights")
    \/ UpdateGetTrafficLights(Failed({"notOk"}), Picks)

SpecMotion == Init /\ [][NextMotion]_vars

----------------------------------------------------------------------------
(* SpecFailure: every way a network call can end.  One car, one traffic     *)
(* light that changes state, the static city.                               *)

FailureCars ==
    Snapshots({<< >>, <<CarEntry("c1", <<0, 0, 0>>, "Up")>>}) \cup Failed(FailureKinds)

FailureLights ==
    Snapshots(SeqsUpTo({LightEntry("l1", <<200, 0, 0>>, st) : st \in BOOLEAN},
                       MaxSnapLen))
    \cup Failed(FailureKinds)

FailureStatics(entries, kind) == Snapshots({entries}) \cup Failed({kind})

FailureClock == {1000, 1500}

NextFailure ==
    \/ PreloadAllModels({AllModels})
    \/ InitTrafficModel(Failed(ResponseKinds \ {"noPositions"}))
    \/ GetCarsReturns(FailureCars, "main.getCars", "getObstacles")
    \/ GetObstacles(Snapshots({City.obstacles}))
    \/ MainGetTrafficLights(FailureLights)
    \/ GetRoads(Snapshots({City.roads}))
    \/ GetDestinations(FailureStatics(City.destinations, "noPositions"), {<<FALSE>>}, FirstModel)
    \/ DrawScene(FailureClock)
    \/ UpdateFails({"reject", "notOk"}, FirstModel)
    \/ UpdateReturns
    \/ GetCarsReturns(FailureCars, "update.getCars", "update.getTrafficLights")
    \/ UpdateGetTrafficLights(FailureLights, FirstModel)

SpecFailure == Init /\ [][NextFailure]_vars

----------------------------------------------------------------------------
(* Vocabulary of the properties                                             *)

PollStates == {"update", "update.getCars", "update.getTrafficLights"}

CarIds(h, cs) == {h[cs[i]].id : i \in 1..Len(cs)}

SceneOf(h, objs, kind) == SelectSeq(objs, LAMBDA r : h[r].kind = kind)

Occurrences(positions, id) == {i \in 1..Len(positions) : positions[i].id = id}

LastEntry(positions, id) ==
    positions[CHOOSE i \in Occurrences(positions, id) :
                  \A j \in Occurrences(positions, id) : j <= i]

Reported(e) == <<e.x, e.y, e.z>>

\* A position at the display offset of the car models.
Displayed(pos) == <<pos[1], pos[2] + CAR_Y_OFFSET, pos[3] + CAR_Z_OFFSET>>

\* The step in which a getCars() call applies a snapshot (lastCars' holds it).
GetCarsApplied ==
    /\ pc \in {"main.getCars", "update.getCars"}
    /\ pc' # pc
    /\ lastKind' = "ok"

\* The step in which drawScene resumes after `await update()` and reconciles.
ReconcileStep == pc \in {"update", "update.getTrafficLights"} /\ pc' = "drawScene"

CarSamples(h, cs) ==
    [i \in 1..Len(cs) |->
        <<cs[i], h[cs[i]].id, h[cs[i]].oldPosArray, h[cs[i]].position,
          h[cs[i]].direction>>]

LightSamples(h, ls) ==
    [i \in 1..Len(ls) |-> <<ls[i], h[ls[i]].id, h[ls[i]].state, h[ls[i]].color>>]

Displaced(car) ==
    /\ car.oldPosArray # Undefined
    /\ \/ Abs(car.position[1] - car.oldPosArray[1]) > EPSILON
       \/ Abs(car.position[3] - car.oldPosArray[3]) > EPSILON

DisplacementYaw(car) ==
    Atan2(car.position[1] - car.oldPosArray[1], car.position[3] - car.oldPosArray[3])

----------------------------------------------------------------------------
(* Properties                                                               *)

\* C1: whenever a frame is due (startup or a poll has been reconciled), every
\* car entity and every traffic-light entity of scene.objects has an id listed
\* in the most recent snapshot successfully received for its category.
C1_SceneIdsInLatestSnapshot ==
    pc = "drawScene" =>
        \A r \in Range(sceneObjects) :
            /\ heap[r].kind = "car" =>
                   lastCars # << >> /\ heap[r].id \in IdsOf(lastCars[1])
            /\ heap[r].kind = "light" =>
                   lastLights # << >> /\ heap[r].id \in IdsOf(lastLights[1])

\* C2: when getCars applies a snapshot, the ids tracked in `cars` afterwards
\* are exactly the ids of the snapshot, each tracked once; a tracked car whose
\* id is listed stays (the same object) whatever its position, and every
\* object that enters `cars` carries an id that was not tracked before.
C2_TrackedIdsAreSnapshotIds ==
    [][(GetCarsApplied =>
          LET snap == lastCars'[1]
          IN  /\ CarIds(heap', cars') = IdsOf(snap)
              /\ Len(cars') = Cardinality(IdsOf(snap))
              /\ \A r \in Range(cars) :
                     heap[r].id \in IdsOf(snap) <=> r \in Range(cars')
              /\ \A r \in Range(cars') \ Range(cars) :
                     heap'[r].id \notin CarIds(heap, cars))]_vars

\* C2 witness: a poll's getCars has applied a snapshot and two cars with
\* different ids are tracked at the same cell.
C2_Witness ==
    /\ pc = "update.getTrafficLights"
    /\ lastKind = "ok"
    /\ Len(cars) = 2
    /\ heap[cars[1]].id # heap[cars[2]].id
    /\ heap[cars[1]].position = heap[cars[2]].position

\* C3 (as stated): while a poll is outstanding a further frame is scheduled.
C3_FramesWhilePollOutstanding ==
    pc \in PollStates => rafPending

\* C3 (amended): while a poll is outstanding no frame is registered and none
\* is drawn (the frame clock and the fraction stay as the polling frame left
\* them); the invocation that issued the poll registers the next frame when
\* the poll has resolved.
C3_NoFrameWhilePollOutstanding ==
    [][(pc \in PollStates =>
          /\ ~rafPending
          /\ then' = then
          /\ fractNum' = fractNum
          /\ elapsed' = elapsed
          /\ (pc' \notin PollStates => pc' = "drawScene" /\ rafPending'))]_vars

\* C3 witness: a poll is outstanding (its getCars has been applied, its
\* getTrafficLights has not returned), cars are tracked, no frame is registered.
C3_Witness ==
    /\ pc = "update.getTrafficLights"
    /\ lastKind = "ok"
    /\ Len(cars) > 0
    /\ ~rafPending

\* C4: no exception leaves initTrafficModel, update, getCars or
\* getTrafficLights; a getCars call that fails leaves `cars` as it was
\* (members, previous and current positions, heading), a getTrafficLights call
\* that fails leaves `trafficLights` as it was (members, state, colour), and an
\* init or advance call that fails leaves both as they were.
C4_FailureKeepsCollections ==
    [][(
       /\ ~escaped'
       /\ (pc \in {"main.getCars", "update.getCars"} /\ lastKind' \in FailureKinds)
              => CarSamples(heap', cars') = CarSamples(heap, cars)
       /\ (pc \in {"main.getTrafficLights", "update.getTrafficLights"}
             /\ lastKind' \in FailureKinds)
              => LightSamples(heap', trafficLights') = LightSamples(heap, trafficLights)
       /\ (pc \in {"initTrafficModel", "update"} /\ lastKind' \in FailureKinds)
              => /\ CarSamples(heap', cars') = CarSamples(heap, cars)
                 /\ LightSamples(heap', trafficLights')
                        = LightSamples(heap, trafficLights))]_vars

\* C4 witness: inside a poll getCars has just failed while a car and a
\* traffic light are tracked.
C4_Witness ==
    /\ pc = "update.getTrafficLights"
    /\ lastKind \in FailureKinds
    /\ Len(cars) > 0
    /\ Len(trafficLights) > 0
    /\ ~escaped

\* C5: when a poll applies the cars snapshot that was applied last, getCars
\* leaves `cars` the same sequence of objects and creates no object, and the
\* updateCars that follows leaves the car entities of scene.objects the same
\* objects in the same order.
C5_SameSnapshotSameMembers ==
    [][(
       /\ (GetCarsApplied /\ sameCars')
              => cars' = cars /\ DOMAIN heap' \subseteq DOMAIN heap
       /\ (ReconcileStep /\ sameCars)
              => SceneOf(heap', sceneObjects', "car")
                     = SceneOf(heap, sceneObjects, "car"))]_vars

\* C5 witness: the poll just reconciled applied the same snapshot as before it,
\* two cars are tracked and a car entity is in the scene.
C5_Witness ==
    /\ pc = "drawScene"
    /\ sameCars
    /\ Len(cars) = 2
    /\ SceneOf(heap, sceneObjects, "car") # << >>

\* C6 (as stated): for every tracked car whose id the applied snapshot lists,
\* after getCars the same object is tracked, its previous sample is the
\* position it had before the call, its position and heading are the reported
\* ones (those of the last entry with its id).
C6_PreviousIsPositionBeforeCall ==
    [][(GetCarsApplied =>
          \A r \in Range(cars) :
              Occurrences(lastCars'[1], heap[r].id) # {} =>
                  /\ r \in Range(cars')
                  /\ heap'[r].oldPosArray = heap[r].position
                  /\ heap'[r].position = Reported(LastEntry(lastCars'[1], heap[r].id))
                  /\ heap'[r].direction = LastEntry(lastCars'[1], heap[r].id).direction)]_vars

\* C6 (amended): the same, for the tracked cars whose id the applied snapshot
\* lists exactly once.
C6_PreviousIsPositionBeforeCallListedOnce ==
    [][(GetCarsApplied =>
          \A r \in Range(cars) :
              Cardinality(Occurrences(lastCars'[1], heap[r].id)) = 1 =>
                  /\ r \in Range(cars')
                  /\ heap'[r].oldPosArray = heap[r].position
                  /\ heap'[r].position = Reported(LastEntry(lastCars'[1], heap[r].id))
                  /\ heap'[r].direction = LastEntry(lastCars'[1], heap[r].id).direction)]_vars

\* C6 witness: a poll's getCars has applied a one-entry snapshot to a car that
\* was tracked at another cell: previous sample and position differ, position
\* and heading are the entry's.
C6_Witness ==
    /\ pc = "update.getTrafficLights"
    /\ lastKind = "ok"
    /\ Len(cars) = 1
    /\ Len(lastCars[1]) = 1
    /\ heap[cars[1]].oldPosArray # heap[cars[1]].position
    /\ heap[cars[1]].position = Reported(lastCars[1][1])
    /\ heap[cars[1]].direction = lastCars[1][1].direction

\* C7 (as stated): a car that enters `cars` has previous sample = position =
\* its first reported position, and every frame draws a car whose two samples
\* are equal at that position.
C7_NewCarDrawnAtItsPosition ==
    [][(
       /\ GetCarsApplied =>
              \A r \in Range(cars') \ Range(cars) :
                  /\ heap'[r].oldPosArray = heap'[r].position
                  /\ heap'[r].position
                         = Reported(lastCars'[1][CHOOSE i \in Occurrences(lastCars'[1], heap'[r].id) :
                                \A j \in Occurrences(lastCars'[1], heap'[r].id) : i <= j])
       /\ pc = "drawScene" =>
              \A r \in Range(cars) :
                  heap[r].oldPosArray = heap[r].position =>
                      /\ heap'[r].renderPos = heap[r].position
                      /\ r \in Range(sceneObjects) => heap'[r].matrix = heap[r].position)]_vars

\* C7 (amended): a car that enters `cars` and whose id the snapshot lists once
\* has previous sample = position = the reported position; every frame, for
\* every fraction, gives a car whose two samples are equal the render position
\* "position plus the display offset", and draws it there if it is in the scene.
C7_NewCarDrawnAtItsDisplayedPosition ==
    [][(
       /\ GetCarsApplied =>
              \A r \in Range(cars') \ Range(cars) :
                  Cardinality(Occurrences(lastCars'[1], heap'[r].id)) = 1 =>
                      /\ heap'[r].oldPosArray = heap'[r].position
                      /\ heap'[r].position
                             = Reported(LastEntry(lastCars'[1], heap'[r].id))
       /\ pc = "drawScene" =>
              \A r \in Range(cars) :
                  heap[r].oldPosArray = heap[r].position =>
                      /\ heap'[r].renderPos = Displayed(heap[r].position)
                      /\ r \in Range(sceneObjects) =>
                             heap'[r].matrix = Displayed(heap[r].position))]_vars

\* C7 witness: a frame part-way through the interval has drawn a car, first
\* reported by a poll, whose two samples are equal, at its displayed position.
C7_Witness ==
    /\ pc = "drawScene"
    /\ fractNum \in 1..(duration - 1)
    /\ lastCars # << >>
    /\ Len(lastCars[1]) = 1
    /\ \E r \in Range(cars) \cap Range(sceneObjects) :
          /\ heap[r].oldPosArray = heap[r].position
          /\ heap[r].position = Reported(lastCars[1][1])
          /\ heap[r].renderPos = Displayed(heap[r].position)
          /\ heap[r].matrix = heap[r].renderPos

\* C8 (as stated): every frame gives every car render x and z on the line from
\* the previous sample to the position at the frame's fraction and render y
\* equal to the position's y; at fraction 0 the render position is the
\* previous sample, at fraction 1 the position.
C8_RenderIsLerp ==
    [][(pc = "drawScene" =>
          \A r \in Range(cars) :
              LET o == heap[r].oldPosArray
                  p == heap[r].position
                  v == heap'[r].renderPos
              IN  /\ (v[1] - o[1]) * duration = (p[1] - o[1]) * fractNum'
                  /\ (v[3] - o[3]) * duration = (p[3] - o[3]) * fractNum'
                  /\ v[2] = p[2]
                  /\ fractNum' = 0 => v = o
                  /\ fractNum' = duration => v = p)]_vars

\* C8 (amended): every frame gives every car render x on the line from the
\* previous sample's x to the position's x at the frame's fraction, render z
\* likewise plus CAR_Z_OFFSET, and render y equal to the position's y plus
\* CAR_Y_OFFSET; at fraction 0 the render position is the displayed
\* (previous x, current y, previous z), at fraction 1 the displayed position.
C8_RenderIsLerpPlusOffset ==
    [][(pc = "drawScene" =>
          \A r \in Range(cars) :
              LET o == heap[r].oldPosArray
                  p == heap[r].position
                  v == heap'[r].renderPos
              IN  /\ (v[1] - o[1]) * duration = (p[1] - o[1]) * fractNum'
                  /\ (v[3] - CAR_Z_OFFSET - o[3]) * duration = (p[3] - o[3]) * fractNum'
                  /\ v[2] = p[2] + CAR_Y_OFFSET
                  /\ fractNum' = 0 => v = Displayed(<<o[1], p[2], o[3]>>)
                  /\ fractNum' = duration => v = Displayed(p))]_vars

\* C8 witness: a frame at half the interval has put a car that moves on x and
\* z, and changes y, half-way on x and z and at the new y.
C8_Witness ==
    /\ pc = "drawScene"
    /\ 2 * fractNum = duration
    /\ \E r \in Range(cars) :
          /\ heap[r].oldPosArray[1] # heap[r].position[1]
          /\ heap[r].oldPosArray[2] # heap[r].position[2]
          /\ heap[r].oldPosArray[3] # heap[r].position[3]
          /\ 2 * heap[r].renderPos[1] = heap[r].oldPosArray[1] + heap[r].position[1]
          /\ 2 * (heap[r].renderPos[3] - CAR_Z_OFFSET)
                 = heap[r].oldPosArray[3] + heap[r].position[3]
          /\ heap[r].renderPos[2] = heap[r].position[2] + CAR_Y_OFFSET

\* C9: the fraction every frame computes lies in [0, 1] (numerator in
\* 0..duration), whatever the frame timestamps are.
C9_FractionInUnitInterval ==
    fractNum \in 0..duration

\* C10: whenever updateCarRotation has run on the tracked cars (setupObjects
\* with a car model, updateCars), every car displaced by more than the epsilon
\* on x or z has the target yaw atan2(dx, dz), whatever its heading.
C10_DisplacementSetsTargetYaw ==
    [][((ReconcileStep \/ (pc = "getDestinations" /\ CarModels(loaded) # << >>)) =>
          \A r \in Range(cars') :
              Displaced(heap'[r]) =>
                  heap'[r].targetRotY = <<DisplacementYaw(heap'[r])>>)]_vars

\* C10 witness: after a reconciliation a displaced car whose reported heading
\* maps to another angle has the yaw of its displacement as target.
C10_Witness ==
    /\ pc = "drawScene"
    /\ lastKind # "none"
    /\ then > 0
    /\ \E r \in Range(cars) :
          /\ Displaced(heap[r])
          /\ heap[r].direction \in DirectionNames
          /\ DIRECTION_ROTATIONS[heap[r].direction] # DisplacementYaw(heap[r])
          /\ heap[r].targetRotY = <<DisplacementYaw(heap[r])>>

\* The step in which updateCarRotation has run on every tracked car:
\* setupObjects with a car model, or updateCars after a poll.
RotationStep ==
    ReconcileStep \/ (pc = "getDestinations" /\ pc' # pc /\ CarModels(loaded) # << >>)

\* C11: whenever updateCarRotation has run on the tracked cars, every car not
\* displaced by more than the epsilon whose heading is Up, Down, Left or Right
\* has the target yaw DIRECTION_ROTATIONS gives for that heading.
C11_StationaryCarFacesHeading ==
    [][(RotationStep =>
          \A r \in Range(cars') :
              (~Displaced(heap'[r]) /\ heap'[r].direction \in DirectionNames) =>
                  heap'[r].targetRotY = <<DIRECTION_ROTATIONS[heap'[r].direction]>>)]_vars

----------------------------------------------------------------------------
(* SpecYaw: rotation.  One car reported once per snapshot, frames a fifth   *)
(* of the poll interval apart or at the same timestamp, both car models.    *)

YawCars ==
    Snapshots(SeqsUpTo(MotionEntries, MaxSnapLen - 1)) \cup Failed({"notOk"})

YawClock == {1000, 1100, 1200, 1500}

NextYaw ==
    \/ PreloadAllModels({AllModels})
    \/ InitTrafficModel(Failed({"ok"}))
    \/ GetCarsReturns(YawCars, "main.getCars", "getObstacles")
    \/ GetObstacles(Failed({"notOk"}))
    \/ MainGetTrafficLights(Failed({"notOk"}))
    \/ GetRoads(Failed({"notOk"}))
    \/ GetDestinations(Failed({"notOk"}), {<<FALSE>>}, FirstModel)
    \/ DrawScene({t \in YawClock : t >= then})
    \/ UpdateFails({"notOk"}, FirstModel)
    \/ UpdateReturns
    \/ GetCarsReturns(YawCars, "update.getCars", "update.getTrafficLights")
    \/ UpdateGetTrafficLights(Failed({"notOk"}), FirstModel)

SpecYaw == Init /\ [][NextYaw]_vars

\* A frame drawn at the timestamp of the frame before it, inside a poll
\* interval: same fraction, same samples, same target yaw.
RepeatedFrame ==
    /\ pc = "drawScene"
    /\ pc' = "drawScene"
    /\ elapsed' = elapsed
    /\ elapsed \in 1..(duration - 1)
    /\ fractNum' = fractNum

\* C12: the render yaw of a frame depends only on the yaw at the last
\* snapshot, the target yaw and the fraction: a frame drawn again at the same
\* fraction gives every car the render yaw it had.
C12_RenderYawDependsOnFractionOnly ==
    [][(RepeatedFrame =>
          \A r \in Range(cars) :
              /\ heap'[r].currentRotY = heap[r].currentRotY
              /\ heap'[r].rotRadY = heap[r].rotRadY)]_vars


-----------------------------------------------------------------------------
(* lerpAngle on its own                                                     *)

\* Angles reach at most MaxTurns full turns either way.
MaxTurns == 2

\* Whole degrees: every eighth of a turn, and 3.0 rad and -3.0 rad.
Angles == {k * (PI \div 4) : k \in (0 - 8 * MaxTurns)..(8 * MaxTurns)} \cup {172, 0 - 172}

\* t = tn / duration in [0, 1].
Factors == {0, 1, 125, 250, 499, 500}

InitAngle ==
    /\ InitPage
    /\ InitLoader
    /\ probe \in {[fn |-> "lerpAngle", start |-> s, end |-> e, t |-> tn, out |-> << >>] :
                      s \in Angles, e \in Angles, tn \in Factors}

ApplyLerpAngle ==
    /\ probe # << >>
    /\ probe.fn = "lerpAngle"
    /\ probe.out = << >>
    /\ probe' = [probe EXCEPT !.out = <<LerpAngle(probe.start, probe.end, probe.t)>>]
    /\ UNCHANGED <<pc, heap, cars, trafficLights, obstacles, roads, destinations,
                   sceneObjects, trafficLightSpheres, loaded, elapsed, then, fractNum,
                   rafPending, escaped, lastKind, lastCars, lastLights, sameCars,
                   files, modelCache, models, pending, returned>>

NextAngle == ApplyLerpAngle

SpecAngle == InitAngle /\ [][NextAngle]_vars

LerpAngleApplied == probe # << >> /\ probe.fn = "lerpAngle" /\ probe.out # << >>

\* The arcs from start to end: every d congruent to end - start with |d| <= PI.
ShortArcs(start, end) ==
    {d \in (0 - PI)..PI : (d - (end - start)) % (2 * PI) = 0}

\* C13: for all start and end angles and every t in [0, 1], lerpAngle returns
\* start plus t times a signed difference from start to end of magnitude at
\* most PI (the shorter arc), so the result is within PI of start, and at
\* t = 1 the result is congruent to end modulo a full turn.
C13_LerpAngleTakesShorterArc ==
    LerpAngleApplied =>
        /\ Abs(probe.out[1] - probe.start) <= PI
        /\ \E d \in ShortArcs(probe.start, probe.end) :
               probe.out[1] = probe.start + (d * probe.t) \div duration
        /\ probe.t = duration => (probe.out[1] - probe.end) % (2 * PI) = 0

\* From 3.0 rad to -3.0 rad half way: the result has moved towards PI, not 0.
C13_Witness ==
    /\ LerpAngleApplied
    /\ probe.start = 172 /\ probe.end = 0 - 172 /\ probe.t = 250
    /\ probe.out[1] = 180


-----------------------------------------------------------------------------
(* Polling and reconciliation                                               *)

\* Running updateCars() and updateTrafficLightSpheres() now would change
\* neither the Scene Graph nor a sphere's colour: `cars` and `trafficLights`
\* hold nothing that is still to be reconciled.
NothingToReconcile ==
    \A pick \in Picks :
        /\ UpdateCars(heap, sceneObjects, cars, loaded, pick).objects = sceneObjects
        /\ UpdateTrafficLightSpheres(heap, trafficLights, trafficLightSpheres) = heap

\* Running updateCars() now would not change a car's target yaw.
NothingToTurn ==
    \A pick \in Picks, r \in Range(cars) :
        UpdateCars(heap, sceneObjects, cars, loaded, pick).heap[r].targetRotY
            = heap[r].targetRotY

\* C14: a frame whose accumulated time reaches the poll interval resets the
\* accumulator to zero and issues one poll; a poll is only ever issued by
\* such a frame, never while another one is outstanding; and every frame
\* starts (interpolates and draws) with nothing left to reconcile, and
\* every frame after a poll with the target yaws updateCars computes.
C14_PollReconciledBeforeNextFrame ==
    [][(
         /\ (pc = "drawScene" /\ elapsed + (then' - then) >= duration) =>
                (elapsed' = 0 /\ pc' = "update")
         /\ (pc' = "update" /\ pc # "update") =>
                (pc = "drawScene" /\ elapsed + (then' - then) >= duration)
         /\ (pc \in PollStates /\ pc' \notin PollStates) => pc' = "drawScene"
         /\ pc = "drawScene" => NothingToReconcile
         /\ (pc = "drawScene" /\ then > 0) => NothingToTurn
       )]_vars

\* The accumulator is zero and a frame is about to run right after a poll
\* that moved a car of the scene.
C14_Witness ==
    /\ pc = "drawScene"
    /\ then > 0
    /\ elapsed = 0
    /\ Len(cars) >= 1
    /\ \E r \in Range(cars) : Displaced(heap[r]) /\ r \in Range(sceneObjects)
    /\ NothingToReconcile


-----------------------------------------------------------------------------
(* Duplicate ids within one snapshot                                        *)

\* The ids the snapshot lists more than once.
Duplicated(positions) ==
    {positions[i].id : i \in {k \in 1..Len(positions) :
                                 Cardinality(Occurrences(positions, positions[k].id)) > 1}}

Tracked(h, cs, id) == {i \in 1..Len(cs) : h[cs[i]].id = id}

InScene(h, objs, id) == {i \in 1..Len(objs) : h[objs[i]].kind = "car" /\ h[objs[i]].id = id}

\* C15: when getCars applies a snapshot that lists an id more than once,
\* exactly one entity with that id is tracked afterwards, and its position
\* and heading are those of the last occurrence, whether the id was tracked
\* before the call or not; and once the snapshot is reconciled at most one
\* entity with that id is in the Scene Graph.
C15_LastDuplicateWins ==
    [][(
         /\ GetCarsApplied =>
              \A id \in Duplicated(lastCars'[1]) :
                  /\ Cardinality(Tracked(heap', cars', id)) = 1
                  /\ \A i \in Tracked(heap', cars', id) :
                        /\ heap'[cars'[i]].position = Reported(LastEntry(lastCars'[1], id))
                        /\ heap'[cars'[i]].direction = LastEntry(lastCars'[1], id).direction
         /\ (pc' = "drawScene" /\ lastCars' # << >>) =>
              \A id \in Duplicated(lastCars'[1]) :
                  Cardinality(InScene(heap', sceneObjects', id)) <= 1
       )]_vars

\* A poll's snapshot listed c1 twice, at two places with two headings; c1 is
\* tracked once, in the scene once, at the place and heading listed last.
C15_Witness ==
    /\ pc = "drawScene"
    /\ then > 0
    /\ lastCars # << >>
    /\ Len(lastCars[1]) = 2
    /\ lastCars[1][1].id = "c1" /\ lastCars[1][2].id = "c1"
    /\ Reported(lastCars[1][1]) # Reported(lastCars[1][2])
    /\ lastCars[1][1].direction # lastCars[1][2].direction
    /\ Len(cars) = 1
    /\ heap[cars[1]].position = Reported(lastCars[1][2])
    /\ heap[cars[1]].direction = lastCars[1][2].direction
    /\ Cardinality(InScene(heap, sceneObjects, "c1")) = 1


-----------------------------------------------------------------------------
(* SpecMalformed: snapshots with an entry that lacks its y coordinate       *)

MalformedEntries ==
    {CarEntry("c1", <<0, 0, 0>>, "Up"),
     CarEntry("c1", <<100, 0, 0>>, "Up"),
     CarEntry("c2", <<0, NotANumber, 100>>, "Up")}

MalformedCars == Snapshots(SeqsUpTo(MalformedEntries, MaxSnapLen)) \cup Failed({"notOk"})

MalformedClock == {1000, 1500}

NextMalformed ==
    \/ PreloadAllModels(MotionLoads)
    \/ InitTrafficModel(Failed({"ok"}))
    \/ GetCarsReturns(MalformedCars, "main.getCars", "getObstacles")
    \/ GetObstacles(Failed({"notOk"}))
    \/ MainGetTrafficLights(Failed({"notOk"}))
    \/ GetRoads(Failed({"notOk"}))
    \/ GetDestinations(Failed({"notOk"}), {<<FALSE>>}, FirstModel)
    \/ DrawScene({t \in MalformedClock : t >= then})
    \/ UpdateFails({"notOk"}, FirstModel)
    \/ UpdateReturns
    \/ GetCarsReturns(MalformedCars, "update.getCars", "update.getTrafficLights")
    \/ UpdateGetTrafficLights(Failed({"notOk"}), FirstModel)

SpecMalformed == Init /\ [][NextMalformed]_vars

Unparseable(pos) == \E k \in 1..3 : pos[k] = NotANumber

\* C16: once a poll has been reconciled (getCars, then updateCars), no entity
\* of scene.objects has an undefined or non-numeric position coordinate, and
\* no exception has left the poll.
C16_UnparseableNeverInScene ==
    [][(ReconcileStep =>
          /\ \A r \in Range(sceneObjects') : ~Unparseable(heap'[r].position)
          /\ ~escaped')]_vars


-----------------------------------------------------------------------------
(* libs/obj_loader.js                                                       *)
(* A text is the sequence of its lines, a line a record of its parts       *)
(* (parts[0] is `op`).  Colours and brightness are in hundredths.           *)

VLine(xyz) == [op |-> "v", xyz |-> xyz]
FLine(verts) == [op |-> "f", verts |-> verts]
UseMtlLine(name) == [op |-> "usemtl", name |-> name]
NewMtlLine(name) == [op |-> "newmtl", name |-> name]
KdLine(kd) == [op |-> "Kd", kd |-> kd]

\* 1.0 in hundredths.
One == 100

\* The colour pushed when no material with a Kd is active.
Gray == <<60, 60, 60, One>>

\* function loadMtl(mtlString, targetMaterials): materials[name] = {} at
\* newmtl, currentMtl['Kd'] at Kd (on a detached object before any newmtl).
RECURSIVE LoadMtl(_, _, _, _)
LoadMtl(lines, i, materials, currentMtl) ==
    IF i > Len(lines) THEN materials
    ELSE LET line == lines[i]
         IN  IF line.op = "newmtl"
             THEN LoadMtl(lines, i + 1,
                          Extend(materials, line.name, [Kd |-> Undefined]),
                          <<line.name>>)
             ELSE IF line.op = "Kd" /\ currentMtl # Undefined
             THEN LoadMtl(lines, i + 1,
                          [materials EXCEPT ![currentMtl[1]] = [Kd |-> line.kd]],
                          currentMtl)
             ELSE LoadMtl(lines, i + 1, materials, currentMtl)

\* Math.min(1.0, kd[c] * brightnessMultiplier) for the three channels, alpha 1.
Brighten_Unclamped(kd, b) ==
    <<(kd[1] * b) \div One, (kd[2] * b) \div One, (kd[3] * b) \div One, One>>

Brighten(kd, b) ==
    <<Min(One, (kd[1] * b) \div One), Min(One, (kd[2] * b) \div One),
      Min(One, (kd[3] * b) \div One), One>>

\* loadObjWithMtl, case 'f': one face vertex after the other; spreading
\* objData.vertices[vert[0]] throws when that vertex was never defined.
RECURSIVE EmitFace(_, _, _, _)
EmitFace(st, verts, k, b) ==
    IF k > Len(verts) \/ st.thrown THEN st
    ELSE IF verts[k] \notin 0..Len(st.vertices)
    THEN [st EXCEPT !.thrown = TRUE]
    ELSE LET xyz == IF verts[k] = 0 THEN <<0, 0, 0>> ELSE st.vertices[verts[k]]
             color == IF st.activeMaterial # Undefined
                         /\ st.activeMaterial[1].Kd # Undefined
                      THEN Brighten(st.activeMaterial[1].Kd, b)
                      ELSE Gray
         IN  EmitFace([st EXCEPT !.a_position = Append(@, xyz),
                                 !.a_color = Append(@, color)],
                      verts, k + 1, b)

\* The line loop with a `usemtl` of an unknown material clearing the active one.
RECURSIVE LoadObjLines_ResetOnUnknown(_, _, _, _, _)
LoadObjLines_ResetOnUnknown(st, lines, i, modelMaterials, b) ==
    IF i > Len(lines) \/ st.thrown THEN st
    ELSE LET line == lines[i]
             next ==
                 IF line.op = "v" THEN [st EXCEPT !.vertices = Append(@, line.xyz)]
                 ELSE IF line.op = "f" THEN EmitFace(st, line.verts, 1, b)
                 ELSE IF line.op = "usemtl"
                 THEN [st EXCEPT !.activeMaterial =
                          IF line.name \in DOMAIN modelMaterials
                          THEN <<modelMaterials[line.name]>> ELSE Undefined]
                 ELSE st
         IN  LoadObjLines_ResetOnUnknown(next, lines, i + 1, modelMaterials, b)

RECURSIVE LoadObjLines(_, _, _, _, _)
LoadObjLines(st, lines, i, modelMaterials, b) ==
    IF i > Len(lines) \/ st.thrown THEN st
    ELSE LET line == lines[i]
             next ==
                 IF line.op = "v" THEN [st EXCEPT !.vertices = Append(@, line.xyz)]
                 ELSE IF line.op = "f" THEN EmitFace(st, line.verts, 1, b)
                 ELSE IF line.op = "usemtl" /\ line.name \in DOMAIN modelMaterials
                 THEN [st EXCEPT !.activeMaterial = <<modelMaterials[line.name]>>]
                 ELSE st
         IN  LoadObjLines(next, lines, i + 1, modelMaterials, b)

\* loadObjWithMtl reading the materials into the module's currentMaterials
\* (loadMtl called without a target) instead of a fresh object.
LoadObjWithMtl_SharedMaterials(objString, mtlString, brightnessMultiplier) ==
    LET modelMaterials == IF mtlString # << >>
                          THEN LoadMtl(mtlString, 1, probe.currentMaterials, Undefined)
                          ELSE probe.currentMaterials
        st == LoadObjLines([vertices |-> << >>, activeMaterial |-> Undefined,
                            a_position |-> << >>, a_color |-> << >>,
                            thrown |-> FALSE],
                           objString, 1, modelMaterials, brightnessMultiplier)
    IN  [thrown |-> st.thrown,
         arrays |-> [a_position |-> st.a_position, a_color |-> st.a_color]]

\* function loadObjWithMtl(objString, mtlString = null, brightnessMultiplier):
\* the arrays, or thrown.  A null and an empty mtlString are both falsy.
LoadObjWithMtl(objString, mtlString, brightnessMultiplier) ==
    LET modelMaterials == IF mtlString # << >>
                          THEN LoadMtl(mtlString, 1, << >>, Undefined)
                          ELSE << >>
        st == LoadObjLines([vertices |-> << >>, activeMaterial |-> Undefined,
                            a_position |-> << >>, a_color |-> << >>,
                            thrown |-> FALSE],
                           objString, 1, modelMaterials, brightnessMultiplier)
    IN  [thrown |-> st.thrown,
         arrays |-> [a_position |-> st.a_position, a_color |-> st.a_color]]

\* A cache key that leaves the brightness out.
CacheKey_NameOnly(modelName, brightnessBoost) == modelName

\* const cacheKey = `${modelName}_${brightnessBoost}`
CacheKey(modelName, brightnessBoost) ==
    modelName \o "_" \o ToString(brightnessBoost)

\* modelCache.has(cacheKey)
Has_Never(cache, key) == FALSE

Has(cache, key) == key \in DOMAIN cache

\* What fetch() gives for a file: a text, a response that is not ok, a rejection.
FileOk(text) == [status |-> "ok", text |-> text]
FileNotOk == [status |-> "notOk", text |-> << >>]
FileReject == [status |-> "reject", text |-> << >>]

Null == << >>

\* preloadModel past the cache check, up to its return: which files it
\* fetched, whether it parsed, and the cachedModel it built (Null when it
\* returned null).  gpu: `await import('twgl-base.js')` and the two twgl calls
\* succeed or throw.
Load_CachesFailure(file, boost, gpu) ==
    IF file.obj.status # "ok"
    THEN [fetched |-> {"obj"}, parsed |-> FALSE,
          model |-> <<[a_position |-> << >>, a_color |-> << >>]>>]
    ELSE LET mtlText == IF file.mtl.status = "ok" THEN file.mtl.text ELSE Null
         IN  [fetched |-> {"obj", "mtl"}, parsed |-> TRUE,
              model |-> <<LoadObjWithMtl(file.obj.text, mtlText, boost).arrays>>]

Load(file, boost, gpu) ==
    IF file.obj.status # "ok"
    THEN [fetched |-> {"obj"}, parsed |-> FALSE, model |-> Null]
    ELSE LET mtlText == IF file.mtl.status = "ok" THEN file.mtl.text ELSE Null
             parsed == LoadObjWithMtl(file.obj.text, mtlText, boost)
         IN  IF parsed.thrown \/ gpu = "throws"
             THEN [fetched |-> {"obj", "mtl"}, parsed |-> TRUE, model |-> Null]
             ELSE [fetched |-> {"obj", "mtl"}, parsed |-> TRUE,
                   model |-> <<parsed.arrays>>]

page == <<pc, heap, cars, trafficLights, obstacles, roads, destinations,
          sceneObjects, trafficLightSpheres, loaded, elapsed, then, fractNum,
          rafPending, escaped, lastKind, lastCars, lastLights, sameCars>>

\* preloadModel(gl, programInfo, basePath, modelName, brightnessBoost) up to
\* its first await: a cached key returns its handle at once.
PreloadModelCalled(names, boosts) ==
    /\ pending = << >>
    /\ \E modelName \in names, brightnessBoost \in boosts :
          LET cacheKey == CacheKey(modelName, brightnessBoost)
              call == [modelName |-> modelName, brightnessBoost |-> brightnessBoost]
          IN  IF Has(modelCache, cacheKey)
              THEN /\ returned' = [call |-> call, result |-> <<modelCache[cacheKey]>>,
                                   fetched |-> {}, parsed |-> FALSE, gpu |-> "unused"]
                   /\ pending' = pending
              ELSE /\ pending' = <<call>>
                   /\ returned' = returned
    /\ UNCHANGED <<files, modelCache, models, probe>>
    /\ UNCHANGED page

\* preloadModel from the first fetch to its return.
PreloadModelReturns(gpus) ==
    /\ pending # << >>
    /\ \E gpu \in gpus :
          LET call == pending[1]
              cacheKey == CacheKey(call.modelName, call.brightnessBoost)
              done == Load(files[call.modelName], call.brightnessBoost, gpu)
          IN  IF done.model = Null
              THEN /\ returned' = [call |-> call, result |-> Null,
                                   fetched |-> done.fetched, parsed |-> done.parsed,
                                   gpu |-> gpu]
                   /\ UNCHANGED <<models, modelCache>>
              ELSE /\ models' = Append(models, [arrays |-> done.model[1]])
                   /\ modelCache' = Extend(modelCache, cacheKey, Len(models) + 1)
                   /\ returned' = [call |-> call, result |-> <<Len(models) + 1>>,
                                   fetched |-> done.fetched, parsed |-> done.parsed,
                                   gpu |-> gpu]
    /\ pending' = Tail(pending)
    /\ UNCHANGED <<files, probe>>
    /\ UNCHANGED page


-----------------------------------------------------------------------------
(* SpecLoader: preloadModel called again and again, one call at a time, for *)
(* two models at two brightness values.  The first model's files vary: a   *)
(* good mesh or one whose face names an undefined vertex, a missing or      *)
(* unreadable file, a material with a Kd, with a black Kd or without Kd.    *)

BodyMesh ==
    <<VLine(<<0, 0, 0>>), VLine(<<100, 0, 0>>), UseMtlLine("body"), FLine(<<1, 2>>)>>

BrokenMesh == <<VLine(<<0, 0, 0>>), FLine(<<1, 2>>)>>

BodyMtl == <<NewMtlLine("body"), KdLine(<<80, 40, 0>>)>>

NoKdMtl == <<NewMtlLine("body")>>

BlackMtl == <<NewMtlLine("body"), KdLine(<<0, 0, 0>>)>>

LoaderNames == {CAR_MODELS[1], TREE_MODEL}

LoaderBoosts == {100, 150}

LoaderFiles ==
    {[n \in LoaderNames |->
         IF n = TREE_MODEL THEN [obj |-> FileOk(BodyMesh), mtl |-> FileOk(BodyMtl)]
         ELSE [obj |-> o, mtl |-> m]] :
       o \in {FileOk(BodyMesh), FileOk(BrokenMesh), FileNotOk, FileReject},
       m \in {FileOk(BodyMtl), FileOk(NoKdMtl), FileOk(BlackMtl), FileNotOk,
              FileReject}}

InitLoading ==
    /\ InitPage
    /\ files \in LoaderFiles
    /\ modelCache = << >>
    /\ models = << >>
    /\ pending = << >>
    /\ returned = << >>
    /\ probe = << >>

NextLoader ==
    \/ PreloadModelCalled(LoaderNames, LoaderBoosts)
    \/ PreloadModelReturns({"ok", "throws"})

SpecLoader == InitLoading /\ [][NextLoader]_vars


KeyOf(call) == CacheKey(call.modelName, call.brightnessBoost)

\* The step in which a preloadModel call returns: at once, or after loading.
ReturnedAtOnce == pending = << >> /\ pending' = << >> /\ returned' # returned
ReturnedAfterLoad == pending # << >> /\ pending' = << >>

\* C17: with one call at a time, a preloadModel call for a (modelName,
\* brightness) an earlier call has loaded returns the very handle that call
\* built and cached, without fetching, parsing or building anything, whatever
\* was loaded in between: a loaded handle is cached under its key, a cached
\* key never changes its handle nor a handle its data, and a call for a
\* cached key returns the cached handle at once.
C17_SecondCallReturnsCachedHandle ==
    [][(
         /\ (ReturnedAfterLoad /\ returned'.result # Null) =>
                /\ KeyOf(returned'.call) \in DOMAIN modelCache'
                /\ modelCache'[KeyOf(returned'.call)] = returned'.result[1]
                /\ returned'.result[1] \notin DOMAIN models
         /\ \A k \in DOMAIN modelCache :
                /\ k \in DOMAIN modelCache'
                /\ modelCache'[k] = modelCache[k]
                /\ models'[modelCache[k]] = models[modelCache[k]]
         /\ pending' # << >> => KeyOf(pending'[1]) \notin DOMAIN modelCache
         /\ ReturnedAtOnce =>
                /\ KeyOf(returned'.call) \in DOMAIN modelCache
                /\ returned'.result = <<modelCache[KeyOf(returned'.call)]>>
                /\ returned'.fetched = {} /\ ~returned'.parsed
                /\ models' = models /\ modelCache' = modelCache
       )]_vars

\* The first handle built comes back at once after two more were built.
C17_Witness ==
    /\ returned # << >>
    /\ returned.fetched = {}
    /\ returned.result = <<1>>
    /\ Len(models) >= 3
    /\ pending = << >>


\* The same model name cached at two different brightness values.
CachedTwice(name, b1, b2) ==
    /\ b1 # b2
    /\ CacheKey(name, b1) \in DOMAIN modelCache
    /\ CacheKey(name, b2) \in DOMAIN modelCache

ColorsOf(name, b) == models[modelCache[CacheKey(name, b)]].arrays.a_color

\* The diffuse colours the model's material file gives (none without a file).
DiffuseColors(name) ==
    IF files[name].mtl.status # "ok" THEN {}
    ELSE {files[name].mtl.text[i].kd :
             i \in {k \in 1..Len(files[name].mtl.text) : files[name].mtl.text[k].op = "Kd"}}

\* C18 (as stated): the same model at two different brightness values has
\* two distinct handles whose colour data differ, whatever its files are.
C18_ColorsDifferForEveryModel ==
    \A name \in LoaderNames, b1 \in LoaderBoosts, b2 \in LoaderBoosts :
        CachedTwice(name, b1, b2) =>
            /\ modelCache[CacheKey(name, b1)] # modelCache[CacheKey(name, b2)]
            /\ ColorsOf(name, b1) # ColorsOf(name, b2)

\* C18 (amended): the same model at two different brightness values has two
\* distinct handles; their colour data have one colour per face vertex, and
\* at each face vertex either both are the gray or they are one diffuse
\* colour of the material file brightened by the two values (so they are
\* equal for a model without a material file or without Kd, and for a black
\* Kd).
C18_DistinctHandlesColorsByKd ==
    \A name \in LoaderNames, b1 \in LoaderBoosts, b2 \in LoaderBoosts :
        CachedTwice(name, b1, b2) =>
            /\ modelCache[CacheKey(name, b1)] # modelCache[CacheKey(name, b2)]
            /\ Len(ColorsOf(name, b1)) = Len(ColorsOf(name, b2))
            /\ \A j \in 1..Len(ColorsOf(name, b1)) :
                  \/ ColorsOf(name, b1)[j] = Gray /\ ColorsOf(name, b2)[j] = Gray
                  \/ \E kd \in DiffuseColors(name) :
                        /\ ColorsOf(name, b1)[j] = Brighten(kd, b1)
                        /\ ColorsOf(name, b2)[j] = Brighten(kd, b2)
            /\ (\A kd \in DiffuseColors(name) : kd = <<0, 0, 0>>) =>
                  ColorsOf(name, b1) = ColorsOf(name, b2)

\* Both brightness values of the tree are cached with different colours, and
\* both of the car, which has no material file, with the same gray.
C18_Witness ==
    /\ CachedTwice(TREE_MODEL, 100, 150)
    /\ ColorsOf(TREE_MODEL, 100) # ColorsOf(TREE_MODEL, 150)
    /\ CachedTwice(CAR_MODELS[1], 100, 150)
    /\ files[CAR_MODELS[1]].mtl.status = "notOk"
    /\ ColorsOf(CAR_MODELS[1], 100) = ColorsOf(CAR_MODELS[1], 150)
    /\ ColorsOf(CAR_MODELS[1], 100) # << >>


\* Every face of the text names vertices that a `v` line above it defined
\* (or the dummy vertex 0).
WellFormed(text) ==
    \A i \in 1..Len(text) :
        text[i].op = "f" =>
            \A k \in 1..Len(text[i].verts) :
                text[i].verts[k] \in
                    0..Cardinality({j \in 1..(i - 1) : text[j].op = "v"})

MeshFails(file) == file.obj.status # "ok" \/ ~WellFormed(file.obj.text)

\* C19: a preloadModel call whose mesh file is missing (not ok) or unreadable
\* (the fetch rejects), or whose mesh names an undefined vertex, returns null
\* and leaves the cache and the models as they were; null is never returned
\* from the cache, only after fetching the mesh again; and a call whose mesh
\* is fine loads, whatever became of the material file, with the gray on
\* every face vertex when that file is missing or unreadable.
C19_FailedLoadReturnsNullUncached ==
    [][(
         /\ (ReturnedAfterLoad /\ MeshFails(files[pending[1].modelName])) =>
                /\ returned'.call = pending[1]
                /\ returned'.result = Null
                /\ modelCache' = modelCache
                /\ models' = models
                /\ KeyOf(pending[1]) \notin DOMAIN modelCache'
         /\ (pending' = << >> /\ returned' # << >> /\ returned'.result = Null) =>
                /\ "obj" \in returned'.fetched
                /\ KeyOf(returned'.call) \notin DOMAIN modelCache'
         /\ (ReturnedAfterLoad /\ ~MeshFails(files[pending[1].modelName])
               /\ returned'.gpu = "ok") =>
                /\ returned'.result # Null
                /\ files[pending[1].modelName].mtl.status # "ok" =>
                       \A j \in 1..Len(models'[returned'.result[1]].arrays.a_color) :
                           models'[returned'.result[1]].arrays.a_color[j] = Gray
       )]_vars

\* A second call for the car, whose mesh names an undefined vertex, has
\* fetched and parsed again and returned null; only the tree is cached.
C19_Witness ==
    /\ pending = << >>
    /\ returned # << >>
    /\ returned.call.modelName = CAR_MODELS[1]
    /\ returned.result = Null
    /\ returned.parsed
    /\ returned.gpu = "ok"
    /\ files[CAR_MODELS[1]].obj = FileOk(BrokenMesh)
    /\ DOMAIN modelCache = {CacheKey(TREE_MODEL, 100)}


-----------------------------------------------------------------------------
(* SpecColor: loadObjWithMtl on its own, on every mesh text of at most      *)
(* MaxObjLines lines.                                                       *)

MaxObjLines == 5

ObjLineKinds ==
    {VLine(<<100, 0, 0>>), FLine(<<1, 1>>), FLine(<<2>>),
     UseMtlLine("body"), UseMtlLine("glass")}

BodyGlassMtl ==
    <<NewMtlLine("body"), KdLine(<<80, 40, 0>>),
      NewMtlLine("glass"), KdLine(<<100, 100, 100>>)>>

\* glass has no Kd.
BodyOnlyMtl == <<NewMtlLine("body"), KdLine(<<80, 40, 0>>), NewMtlLine("glass")>>

\* A Kd line above the first newmtl: body has no Kd.
DetachedKdMtl == <<KdLine(<<80, 40, 0>>), NewMtlLine("body")>>

MtlTexts == {Null, BodyGlassMtl, BodyOnlyMtl, DetachedKdMtl}

ColorBoosts == {50, 150}

InitColor ==
    /\ InitPage
    /\ InitLoader
    /\ probe \in {[fn |-> "loadObjWithMtl", objString |-> o, mtlString |-> m,
                   brightnessMultiplier |-> b, out |-> << >>] :
                      o \in SeqsUpTo(ObjLineKinds, MaxObjLines), m \in MtlTexts,
                      b \in ColorBoosts}

ApplyLoadObjWithMtl ==
    /\ probe # << >>
    /\ probe.fn = "loadObjWithMtl"
    /\ probe.out = << >>
    /\ probe' = [probe EXCEPT !.out = <<LoadObjWithMtl(probe.objString, probe.mtlString,
                                                       probe.brightnessMultiplier)>>]
    /\ UNCHANGED <<files, modelCache, models, pending, returned>>
    /\ UNCHANGED page

NextColor == ApplyLoadObjWithMtl

SpecColor == InitColor /\ [][NextColor]_vars

LoadObjWithMtlApplied ==
    probe # << >> /\ probe.fn = "loadObjWithMtl" /\ probe.out # << >>

Last(S) == CHOOSE i \in S : \A j \in S : j <= i

\* The Kd of the material `name` as the MTL text gives it: the last Kd line
\* of the last `newmtl name` block; Undefined without such a line.
DiffuseOf(mtl, name) ==
    LET heads == {i \in 1..Len(mtl) : mtl[i].op = "newmtl"}
        mine == {i \in heads : mtl[i].name = name}
        body == {j \in 1..Len(mtl) :
                    /\ mtl[j].op = "Kd"
                    /\ j > Last(mine)
                    /\ \A h \in heads : ~(Last(mine) < h /\ h < j)}
    IN  IF mine = {} \/ body = {} THEN Undefined ELSE mtl[Last(body)].kd

\* The material active at line i of the OBJ text: the one the last usemtl
\* line above i names, among the lines that name a material of the MTL text.
ActiveAt(obj, mtl, i) ==
    LET uses == {u \in 1..(i - 1) :
                    /\ obj[u].op = "usemtl"
                    /\ \E h \in 1..Len(mtl) : mtl[h].op = "newmtl" /\ mtl[h].name = obj[u].name}
    IN  IF uses = {} THEN Undefined ELSE <<obj[Last(uses)].name>>

\* min(1, kd * b)
Clamped(kd, b) == IF (kd * b) \div One > One THEN One ELSE (kd * b) \div One

ColorAt(obj, mtl, b, i) ==
    LET active == ActiveAt(obj, mtl, i)
        kd == IF active = Undefined THEN Undefined ELSE DiffuseOf(mtl, active[1])
    IN  IF kd = Undefined THEN <<60, 60, 60, One>>
        ELSE <<Clamped(kd[1], b), Clamped(kd[2], b), Clamped(kd[3], b), One>>

\* The face vertices the lines above line i emit.
RECURSIVE EmittedAbove(_, _)
EmittedAbove(obj, i) ==
    IF i <= 1 THEN 0
    ELSE EmittedAbove(obj, i - 1)
         + (IF obj[i - 1].op = "f" THEN Len(obj[i - 1].verts) ELSE 0)

\* C20: when loadObjWithMtl returns, a_color holds one colour per face vertex
\* in file order; the colour of a face vertex is (min(1, Kd[0] b),
\* min(1, Kd[1] b), min(1, Kd[2] b), 1) for the Kd of the material active at
\* its face, and the gray (0.6, 0.6, 0.6, 1) whatever b is when no material
\* is active or the active one has no Kd; every channel is at most 1 and
\* alpha is 1.
C20_FaceVertexColor ==
    (LoadObjWithMtlApplied /\ ~probe.out[1].thrown) =>
        LET obj == probe.objString
            a_color == probe.out[1].arrays.a_color
        IN  /\ Len(a_color) = EmittedAbove(obj, Len(obj) + 1)
            /\ \A i \in 1..Len(obj) :
                  obj[i].op = "f" =>
                      \A k \in 1..Len(obj[i].verts) :
                          a_color[EmittedAbove(obj, i) + k] =
                              ColorAt(obj, probe.mtlString, probe.brightnessMultiplier, i)
            /\ \A j \in 1..Len(a_color) :
                  /\ \A c \in 1..3 : a_color[j][c] <= One
                  /\ a_color[j][4] = One

\* A face before any usemtl (gray), then a face of body at brightness 1.5:
\* 0.8 is clamped to 1, 0.4 becomes 0.6, 0 stays 0.
C20_Witness ==
    /\ LoadObjWithMtlApplied
    /\ ~probe.out[1].thrown
    /\ probe.brightnessMultiplier = 150
    /\ probe.out[1].arrays.a_color =
           <<Gray, Gray, <<One, 60, 0, One>>, <<One, 60, 0, One>>>>


-----------------------------------------------------------------------------
(* SpecMesh: any part of the 3D models fails to load.  Two cars that come   *)
(* and go, one traffic light, the static city with or without a tree.       *)

MeshLoads ==
    {AllModels, {}, AllModels \ Range(CAR_MODELS), Range(CAR_MODELS)}

MeshCars ==
    Snapshots(SeqsUpTo({CarEntry("c1", <<0, 0, 0>>, "Up"),
                        CarEntry("c2", <<100, 0, 0>>, "Up")}, MaxSnapLen))

MeshLights ==
    Snapshots({<<LightEntry("l1", <<200, 0, 0>>, st)>> : st \in BOOLEAN})
    \cup Failed({"notOk"})

MeshClock == {1000, 1500}

NextMesh ==
    \/ PreloadAllModels(MeshLoads)
    \/ InitTrafficModel(Failed({"ok"}))
    \/ GetCarsReturns(MeshCars, "main.getCars", "getObstacles")
    \/ GetObstacles(Snapshots({City.obstacles}))
    \/ MainGetTrafficLights(MeshLights)
    \/ GetRoads(Snapshots({City.roads}))
    \/ GetDestinations(Snapshots({City.destinations}), {<<FALSE>>, <<TRUE>>}, FirstModel)
    \/ DrawScene({t \in MeshClock : t >= then})
    \/ UpdateFails({"notOk"}, FirstModel)
    \/ UpdateReturns
    \/ GetCarsReturns(MeshCars, "update.getCars", "update.getTrafficLights")
    \/ UpdateGetTrafficLights(MeshLights, FirstModel)

SpecMesh == Init /\ [][NextMesh]_vars

\* The step in which drawScene draws a frame.
FrameStep == pc = "drawScene" /\ pc' \in {"drawScene", "update"}

\* C21: in every frame, every entity of scene.objects (each is handed to
\* drawObject) has a mesh, whether it was added at setup or by a later
\* reconciliation, whichever models loaded.
C21_DrawnEntitiesHaveMesh ==
    [][(FrameStep =>
          \A r \in Range(sceneObjects) : heap[r].vao # NoMesh)]_vars

\* No model loaded: a frame has drawn cubes only, a car and a light among them.
C21_Witness ==
    /\ loaded = {}
    /\ then > 0
    /\ \E r \in Range(sceneObjects) : heap[r].kind = "car" /\ heap[r].matrix # Undefined
    /\ \E r \in Range(sceneObjects) : heap[r].kind = "light" /\ heap[r].matrix # Undefined
    /\ \A r \in Range(sceneObjects) : heap[r].vao = CubeMesh


-----------------------------------------------------------------------------
(* Traffic lights                                                           *)

\* The step in which a getTrafficLights() call applies a snapshot.
GetTrafficLightsApplied ==
    /\ pc \in {"main.getTrafficLights", "update.getTrafficLights"}
    /\ pc' # pc
    /\ lastKind' = "ok"

TrackedLights(h, ls, id) == {i \in 1..Len(ls) : h[ls[i]].id = id}

LightsInScene(h, objs, kind, id) ==
    {i \in 1..Len(objs) : h[objs[i]].kind = kind /\ h[objs[i]].id = id}

\* Sphere r has the colour parameters of a light in the given state.
SphereShows(h, r, state) ==
    /\ h[r].color = IF state THEN <<20, 100, 20, 100>> ELSE <<100, 20, 10, 100>>
    /\ h[r].diffuseColor = IF state THEN <<30, 120, 30, 100>> ELSE <<120, 30, 15, 100>>
    /\ h[r].ambientColor = IF state THEN <<10, 50, 10, 100>> ELSE <<50, 10, 5, 100>>

\* Every tracked light, the sphere kept for its id and the sphere drawn for
\* its id show the light's state.
ShowsState(h, ls, spheres, objs) ==
    \A i \in 1..Len(ls) :
        LET light == h[ls[i]]
        IN  /\ light.color = IF light.state THEN <<0, 100, 0, 100>> ELSE <<100, 0, 0, 100>>
            /\ light.id \in DOMAIN spheres => SphereShows(h, spheres[light.id], light.state)
            /\ \A k \in LightsInScene(h, objs, "sphere", "light_sphere_" \o light.id) :
                  SphereShows(h, objs[k], light.state)

\* C22: after every reconciliation each tracked traffic light has the green
\* colour when its state is true and the red one when it is false, and so has
\* the indicator sphere of its id (colour,
\* diffuse, ambient); and a snapshot applied while lights are tracked changes
\* them in place: the same objects stay tracked, with the reported states,
\* one light of each id, at most one light entity and one sphere of that id
\* in the scene.
C22_LightsShowStateInPlace ==
    [][(
         /\ ReconcileStep => ShowsState(heap', trafficLights', trafficLightSpheres', sceneObjects')
         /\ (GetTrafficLightsApplied /\ Len(trafficLights) > 0) =>
              /\ trafficLights' = trafficLights
              /\ \A i \in 1..Len(trafficLights) :
                    LET id == heap[trafficLights[i]].id
                    IN  /\ Cardinality(TrackedLights(heap', trafficLights', id)) = 1
                        /\ Occurrences(lastLights'[1], id) # {} =>
                              heap'[trafficLights[i]].state = LastEntry(lastLights'[1], id).state
                        /\ Cardinality(LightsInScene(heap', sceneObjects', "light", id)) <= 1
                        /\ Cardinality(LightsInScene(heap', sceneObjects', "sphere",
                                                     "light_sphere_" \o id)) <= 1
       )]_vars


\* C23: when no car model is loaded, every tracked car, reported at startup
\* or first reported by a later poll, is in the scene with the cube mesh
\* whenever a frame is due.
C23_CarsShownAsCubes ==
    (pc = "drawScene" /\ loaded \cap Range(CAR_MODELS) = {}) =>
        \A i \in 1..Len(cars) :
            /\ cars[i] \in Range(sceneObjects)
            /\ heap[cars[i]].vao = CubeMesh


\* C24: every poll, whatever failed in it (advance call rejected or not OK,
\* cars or lights call rejected, not OK or without a positions list), ends in
\* drawScene with no exception escaped, the next frame registered and the
\* interval restarted; and every frame, after failed polls as after successful
\* ones, issues a poll exactly when the interval has elapsed again.
C24_FailedPollKeepsLoop ==
    [][(
         /\ (pc \in PollStates /\ pc' = "drawScene") =>
                rafPending' /\ ~escaped' /\ elapsed' = 0
         /\ pc \in PollStates => pc' \in PollStates \cup {"drawScene"}
         /\ FrameStep => (pc' = "update" <=> elapsed + (then' - then) >= duration)
       )]_vars

\* C24 witness: the advance call of the poll issued at 1000 was rejected (no
\* startup call leaves that outcome behind), frames went on, and at 1500 the
\* next poll is issued.
C24_Witness ==
    /\ pc = "update"
    /\ then = 1500
    /\ lastKind = "reject"
    /\ ~escaped
    /\ Len(cars) > 0


-----------------------------------------------------------------------------
(* Frames after a poll whose advance call failed                            *)

ReplayCars ==
    Snapshots({<<CarEntry("c1", <<0, 0, 0>>, "Right")>>,
               <<CarEntry("c1", <<100, 0, 0>>, "Right")>>,
               <<CarEntry("c1", <<100, 0, 0>>, "Right"),
                 CarEntry("c2", <<0, 0, 100>>, "Up")>>})

ReplayClock == {1000, 1250, 1500, 1750, 2000}

\* Every startup call and every snapshot call of a poll succeeds: a failure
\* left in lastKind is that of the last poll's advance call.
NextReplay ==
    \/ PreloadAllModels({AllModels})
    \/ InitTrafficModel(Failed({"ok"}))
    \/ GetCarsReturns(ReplayCars, "main.getCars", "getObstacles")
    \/ GetObstacles(Snapshots({City.obstacles}))
    \/ MainGetTrafficLights(Snapshots({<<LightEntry("l1", <<200, 0, 0>>, TRUE)>>}))
    \/ GetRoads(Snapshots({City.roads}))
    \/ GetDestinations(Snapshots({City.destinations}), {<<FALSE>>}, FirstModel)
    \/ DrawScene({t \in ReplayClock : t >= then})
    \/ UpdateFails({"reject", "notOk"}, FirstModel)
    \/ UpdateReturns
    \/ GetCarsReturns(ReplayCars, "update.getCars", "update.getTrafficLights")
    \/ UpdateGetTrafficLights(Snapshots({<<LightEntry("l1", <<200, 0, 0>>, st)>> :
                                             st \in BOOLEAN}), FirstModel)

SpecReplay == Init /\ [][NextReplay]_vars

\* C25: in every frame drawn after a poll whose advance call failed, each
\* car of the scene is rendered at its current position (at the display
\* offset), not between its previous sample and the current one.
C25_NoReplayAfterFailedPoll ==
    [][(
         (FrameStep /\ then > 0 /\ lastKind \in {"reject", "notOk"}) =>
             \A i \in 1..Len(cars) :
                 cars[i] \in Range(sceneObjects) =>
                     heap'[cars[i]].renderPos = Displayed(heap[cars[i]].position)
       )]_vars


-----------------------------------------------------------------------------
(* Static categories                                                        *)

StartupStates ==
    {"preloadAllModels", "initTrafficModel", "main.getCars", "getObstacles",
     "main.getTrafficLights", "getRoads", "getDestinations"}

StaticRefs == Range(obstacles) \cup Range(roads) \cup Range(destinations)

\* C26: once startup is over (frames and polls), `obstacles`, `roads` and
\* `destinations` keep their members, every static entity keeps all its
\* fields but the model matrix computed for the draw call, it stays in the
\* scene if it was there, and the program never goes back to a startup call.
C26_StaticsImmutableAfterStart ==
    [][(
         pc \notin StartupStates =>
             /\ pc' \notin StartupStates
             /\ obstacles' = obstacles
             /\ roads' = roads
             /\ destinations' = destinations
             /\ \A r \in StaticRefs :
                   /\ r \in DOMAIN heap'
                   /\ [heap'[r] EXCEPT !.matrix = heap[r].matrix] = heap[r]
                   /\ r \in Range(sceneObjects) <=> r \in Range(sceneObjects')
       )]_vars

\* C26 witness: a poll that brought a car has been reconciled and a frame
\* drawn after it, with an obstacle tracked and a road and a destination
\* tracked and drawn.
C26_Witness ==
    /\ pc = "drawScene"
    /\ then > 1000
    /\ Len(cars) > 0
    /\ Len(obstacles) > 0 /\ Len(roads) > 0 /\ Len(destinations) > 0
    /\ \A r \in Range(roads) \cup Range(destinations) :
          r \in Range(sceneObjects) /\ heap[r].matrix # Undefined


\* C27: in a poll getCars is requested only when the advance call has
\* answered OK, getTrafficLights only when getCars has returned (whatever its
\* outcome), and a poll whose advance call fails or answers non-OK goes back
\* to drawScene with no snapshot requested or applied.
C27_SnapshotsAfterAdvance ==
    [][(
         /\ (pc' = "update.getCars" /\ pc # pc') => (pc = "update" /\ lastKind' = "ok")
         /\ (pc' = "update.getTrafficLights" /\ pc # pc') => pc = "update.getCars"
         /\ pc = "update.getCars" => pc' = "update.getTrafficLights"
         /\ (pc = "update" /\ lastKind' \in FailureKinds) =>
                /\ pc' = "drawScene"
                /\ lastCars' = lastCars
                /\ lastLights' = lastLights
       )]_vars

\* C27 witness: in the poll issued at 1500 the advance call answered OK, the
\* cars snapshot has been applied and the lights snapshot is requested.
C27_Witness ==
    /\ pc = "update.getTrafficLights"
    /\ then = 1500
    /\ lastKind = "ok"
    /\ lastCars # << >>
    /\ Len(trafficLights) > 0


-----------------------------------------------------------------------------
(* drawObject's world matrix                                                *)
(* Matrices are four rows of four integers, applied to column vectors;     *)
(* angles are whole quarter turns in degrees, so that sines and cosines    *)
(* are integers.                                                           *)

QuarterTurns == {0, 90, 180, 270}

Cos(a) == CASE a % 360 = 0 -> 1 [] a % 360 = 180 -> 0 - 1 [] OTHER -> 0
Sin(a) == CASE a % 360 = 90 -> 1 [] a % 360 = 270 -> 0 - 1 [] OTHER -> 0

M4_identity == <<<<1, 0, 0, 0>>, <<0, 1, 0, 0>>, <<0, 0, 1, 0>>, <<0, 0, 0, 1>>>>

\* M4.multiply(a, b): the transformation that applies b first, then a.
M4_multiply(a, b) ==
    [i \in 1..4 |-> [j \in 1..4 |->
        a[i][1] * b[1][j] + a[i][2] * b[2][j] + a[i][3] * b[3][j] + a[i][4] * b[4][j]]]

M4_scale(v) ==
    <<<<v[1], 0, 0, 0>>, <<0, v[2], 0, 0>>, <<0, 0, v[3], 0>>, <<0, 0, 0, 1>>>>

M4_rotationX(a) ==
    <<<<1, 0, 0, 0>>, <<0, Cos(a), 0 - Sin(a), 0>>, <<0, Sin(a), Cos(a), 0>>, <<0, 0, 0, 1>>>>

M4_rotationY(a) ==
    <<<<Cos(a), 0, Sin(a), 0>>, <<0, 1, 0, 0>>, <<0 - Sin(a), 0, Cos(a), 0>>, <<0, 0, 0, 1>>>>

M4_rotationZ(a) ==
    <<<<Cos(a), 0 - Sin(a), 0, 0>>, <<Sin(a), Cos(a), 0, 0>>, <<0, 0, 1, 0>>, <<0, 0, 0, 1>>>>

M4_translation(v) ==
    <<<<1, 0, 0, v[1]>>, <<0, 1, 0, v[2]>>, <<0, 0, 1, v[3]>>, <<0, 0, 0, 1>>>>

\* drawObject of traffic_agents.js (Phong, renderPos), the world matrix with
\* the translation first.
WorldMatrix_TranslateFirst(object, v3_tra) ==
    LET scaMat == M4_scale(object.scaArray)
        rotXMat == M4_rotationX(object.rotRad[1])
        rotYMat == M4_rotationY(object.rotRad[2])
        rotZMat == M4_rotationZ(object.rotRad[3])
        traMat == M4_translation(v3_tra)
        w0 == M4_identity
        w1 == M4_multiply(traMat, w0)
        w2 == M4_multiply(scaMat, w1)
        w3 == M4_multiply(rotXMat, w2)
        w4 == M4_multiply(rotYMat, w3)
    IN  M4_multiply(rotZMat, w4)

\* drawObject of the latest traffic_agents.js: `worldMatrix`.
WorldMatrix(object, v3_tra) ==
    LET scaMat == M4_scale(object.scaArray)
        rotXMat == M4_rotationX(object.rotRad[1])
        rotYMat == M4_rotationY(object.rotRad[2])
        rotZMat == M4_rotationZ(object.rotRad[3])
        traMat == M4_translation(v3_tra)
        w0 == M4_identity
        w1 == M4_multiply(scaMat, w0)
        w2 == M4_multiply(rotXMat, w1)
        w3 == M4_multiply(rotYMat, w2)
        w4 == M4_multiply(rotZMat, w3)
    IN  M4_multiply(traMat, w4)

\* drawObject of the variant with the lights array: `worldMatrix`, the
\* translation being the interpolated position plus the position offset.
WorldMatrix_Lights(object, v3_tra) ==
    LET moved == IF object.positionOffset # Undefined
                 THEN <<v3_tra[1] + object.positionOffset[1][1],
                        v3_tra[2] + object.positionOffset[1][2],
                        v3_tra[3] + object.positionOffset[1][3]>>
                 ELSE v3_tra
        scaMat == M4_scale(object.scaArray)
        rotXMat == M4_rotationX(object.rotRad[1])
        rotYMat == M4_rotationY(object.rotRad[2])
        rotZMat == M4_rotationZ(object.rotRad[3])
        traMat == M4_translation(moved)
        w0 == M4_identity
        w1 == M4_multiply(scaMat, w0)
        w2 == M4_multiply(rotXMat, w1)
        w3 == M4_multiply(rotYMat, w2)
        w4 == M4_multiply(rotZMat, w3)
    IN  M4_multiply(traMat, w4)

\* drawObject of the basic colour variant: `transforms`.
Transforms(object, v3_tra) ==
    LET scaMat == M4_scale(object.scaArray)
        rotXMat == M4_rotationX(object.rotRad[1])
        rotYMat == M4_rotationY(object.rotRad[2])
        rotZMat == M4_rotationZ(object.rotRad[3])
        traMat == M4_translation(v3_tra)
        t0 == M4_identity
        t1 == M4_multiply(scaMat, t0)
        t2 == M4_multiply(rotXMat, t1)
        t3 == M4_multiply(rotYMat, t2)
        t4 == M4_multiply(rotZMat, t3)
    IN  M4_multiply(traMat, t4)

\* drawObject of AgentsVisualization/visualization/traffic_agents.js.
WorldMatrix_Visualization(object, v3_tra) ==
    LET scaMat == M4_scale(object.scaArray)
        rotXMat == M4_rotationX(object.rotRad[1])
        rotYMat == M4_rotationY(object.rotRad[2])
        rotZMat == M4_rotationZ(object.rotRad[3])
        traMat == M4_translation(v3_tra)
        w0 == M4_identity
        w1 == M4_multiply(scaMat, w0)
        w2 == M4_multiply(rotXMat, w1)
        w3 == M4_multiply(rotYMat, w2)
        w4 == M4_multiply(rotZMat, w3)
    IN  M4_multiply(traMat, w4)

TransformScales == {<<1, 1, 1>>, <<2, 3, 4>>}
TransformPlaces == {<<0, 0, 0>>, <<5, 6, 7>>}
TransformOffsets == {Undefined, <<<<0, 0, 1>>>>}

TransformObjects ==
    {[scaArray |-> s, rotRad |-> <<rx, ry, rz>>, posArray |-> p, positionOffset |-> o] :
        s \in TransformScales, rx \in QuarterTurns, ry \in QuarterTurns,
        rz \in QuarterTurns, p \in TransformPlaces, o \in TransformOffsets}

InitTransform ==
    /\ InitPage
    /\ InitLoader
    /\ probe \in {[fn |-> "drawObject", object |-> o, out |-> << >>, variant |-> "none"] :
                      o \in TransformObjects}

DrawObjectCalled(variant, matrix) ==
    /\ probe # << >>
    /\ probe.fn = "drawObject"
    /\ probe.out = << >>
    /\ probe' = [probe EXCEPT !.out = <<matrix>>, !.variant = variant]
    /\ UNCHANGED <<pc, heap, cars, trafficLights, obstacles, roads, destinations,
                   sceneObjects, trafficLightSpheres, loaded, elapsed, then, fractNum,
                   rafPending, escaped, lastKind, lastCars, lastLights, sameCars,
                   files, modelCache, models, pending, returned>>

NextTransform ==
    \/ DrawObjectCalled("phong", WorldMatrix(probe.object, probe.object.posArray))
    \/ DrawObjectCalled("lights", WorldMatrix_Lights(probe.object, probe.object.posArray))
    \/ DrawObjectCalled("basic", Transforms(probe.object, probe.object.posArray))
    \/ DrawObjectCalled("visualization",
                        WorldMatrix_Visualization(probe.object, probe.object.posArray))

SpecTransform == InitTransform /\ [][NextTransform]_vars

\* The image of point p under matrix m.
Image(m, p) ==
    <<m[1][1] * p[1] + m[1][2] * p[2] + m[1][3] * p[3] + m[1][4],
      m[2][1] * p[1] + m[2][2] * p[2] + m[2][3] * p[3] + m[2][4],
      m[3][1] * p[1] + m[3][2] * p[2] + m[3][3] * p[3] + m[3][4]>>

Scaled(p, s) == <<p[1] * s[1], p[2] * s[2], p[3] * s[3]>>
TurnedX(p, a) == <<p[1], p[2] * Cos(a) - p[3] * Sin(a), p[2] * Sin(a) + p[3] * Cos(a)>>
TurnedY(p, a) == <<p[1] * Cos(a) + p[3] * Sin(a), p[2], p[3] * Cos(a) - p[1] * Sin(a)>>
TurnedZ(p, a) == <<p[1] * Cos(a) - p[2] * Sin(a), p[1] * Sin(a) + p[2] * Cos(a), p[3]>>
Moved(p, t) == <<p[1] + t[1], p[2] + t[2], p[3] + t[3]>>

TransformPoints == {<<0, 0, 0>>, <<1, 0, 0>>, <<0, 1, 0>>, <<0, 0, 1>>, <<1, 2, 3>>}

\* Where the variant just applied puts the object.
PlaceOf(p) ==
    IF p.variant = "lights" /\ p.object.positionOffset # Undefined
    THEN Moved(p.object.posArray, p.object.positionOffset[1])
    ELSE p.object.posArray

\* C28: in each of the four drawObject variants the world matrix sends every
\* point of the mesh to the point obtained by scaling it, then turning it
\* about X, then about Y, then about Z, then moving it to the object's place.
C28_ScaleRotateXYZTranslate ==
    (probe # << >> /\ probe.fn = "drawObject" /\ probe.out # << >>) =>
        \A p \in TransformPoints :
            Image(probe.out[1], p) =
                Moved(TurnedZ(TurnedY(TurnedX(Scaled(p, probe.object.scaArray),
                                              probe.object.rotRad[1]),
                                      probe.object.rotRad[2]),
                              probe.object.rotRad[3]),
                      PlaceOf(probe))

\* C28 witness: an object with unequal scale factors, turned a quarter about
\* X, a half about Y and three quarters about Z and placed off the origin has
\* been given its matrix: the orders of the five steps give different
\* matrices.
C28_Witness ==
    /\ probe # << >>
    /\ probe.fn = "drawObject"
    /\ probe.out # << >>
    /\ probe.object.scaArray = <<2, 3, 4>>
    /\ probe.object.rotRad = <<90, 180, 270>>
    /\ probe.object.posArray = <<5, 6, 7>>
    /\ probe.out[1] # WorldMatrix_TranslateFirst(probe.object, probe.object.posArray)


-----------------------------------------------------------------------------
(* Camera control panel                                                     *)
(* Camera parameters are in tenths: distance 30 is 300, azimuth 4 is 40,   *)
(* elevation 0.6 is 6, target coordinate 12 is 120.                        *)

\* new Camera3D(id, distance, azimuth, elevation, target, rotation)
Camera3D(distance, azimuth, elevation, target) ==
    [distance |-> distance, azimuth |-> azimuth, elevation |-> elevation,
     target |-> [x |-> target[1], y |-> target[2], z |-> target[3]]]

\* function setupScene() of the latest traffic_agents.js
SetupScene == Camera3D(300, 40, 6, <<120, 0, 120>>)

\* function setupScene() of the variant with the lights array
SetupScene_Lights == Camera3D(300, 40, 6, <<100, 0, 100>>)

\* function setupScene() of AgentsVisualization/visualization/traffic_agents.js
SetupScene_Visualization == Camera3D(300, 40, 6, <<120, 0, 120>>)

\* setupUI: the cameraSettings object, read from the camera.
CameraSettings(camera) ==
    [distance |-> camera.distance, azimuth |-> camera.azimuth,
     elevation |-> camera.elevation, targetX |-> camera.target.x,
     targetY |-> camera.target.y, targetZ |-> camera.target.z]

\* setupUI: const updateCamera = () => { ... }
UpdateCamera(camera, cameraSettings) ==
    [camera EXCEPT !.distance = cameraSettings.distance,
                   !.azimuth = cameraSettings.azimuth,
                   !.elevation = cameraSettings.elevation,
                   !.target = [x |-> cameraSettings.targetX,
                               y |-> cameraSettings.targetY,
                               z |-> cameraSettings.targetZ]]

\* cameraSettings.reset of the three variants with a panel: the same literals.
ResetSettings(cameraSettings) ==
    [cameraSettings EXCEPT !.distance = 300, !.azimuth = 40, !.elevation = 6,
                           !.targetX = 120, !.targetY = 0, !.targetZ = 120]

PanelVariants == {"latest", "lights", "visualization"}

BuiltCamera(variant) ==
    CASE variant = "latest" -> SetupScene
      [] variant = "lights" -> SetupScene_Lights
      [] variant = "visualization" -> SetupScene_Visualization

SliderValues ==
    [distance |-> {50, 1000}, azimuth |-> {0, 63}, elevation |-> {0, 15},
     targetX |-> {0, 240}, targetY |-> {0 - 50}, targetZ |-> {0, 100}]

InitCamera ==
    /\ InitPage
    /\ InitLoader
    /\ probe \in {[fn |-> "setupUI", variant |-> v, built |-> BuiltCamera(v),
                   camera |-> BuiltCamera(v),
                   cameraSettings |-> CameraSettings(BuiltCamera(v)),
                   last |-> "setupUI", edited |-> FALSE] : v \in PanelVariants}

CameraStep(camera, cameraSettings, last) ==
    /\ probe # << >>
    /\ probe.fn = "setupUI"
    /\ probe' = [probe EXCEPT !.camera = camera, !.cameraSettings = cameraSettings,
                              !.last = last,
                              !.edited = (probe.edited \/ last # "reset")]
    /\ UNCHANGED <<pc, heap, cars, trafficLights, obstacles, roads, destinations,
                   sceneObjects, trafficLightSpheres, loaded, elapsed, then, fractNum,
                   rafPending, escaped, lastKind, lastCars, lastLights, sameCars,
                   files, modelCache, models, pending, returned>>

\* A slider of the panel is moved: lil-gui writes the field, onChange runs
\* updateCamera.
SliderMoved ==
    \E field \in DOMAIN SliderValues :
        \E value \in SliderValues[field] :
            LET edited == [probe.cameraSettings EXCEPT ![field] = value]
            IN  CameraStep(UpdateCamera(probe.camera, edited), edited, "slider")

\* The orbit controls (keys, pointer) change the camera itself.
OrbitInput ==
    \E distance \in {200, 300}, azimuth \in {40, 50} :
        CameraStep([probe.camera EXCEPT !.distance = distance, !.azimuth = azimuth],
                   probe.cameraSettings, "orbit")

\* The reset button: cameraSettings.reset() and, from it, updateCamera().
ResetPressed ==
    LET defaults == ResetSettings(probe.cameraSettings)
    IN  CameraStep(UpdateCamera(probe.camera, defaults), defaults, "reset")

NextCamera ==
    \/ SliderMoved
    \/ OrbitInput
    \/ ResetPressed

SpecCamera == InitCamera /\ [][NextCamera]_vars

\* C29: right after reset the camera's distance, azimuth, elevation and
\* target are those it was constructed with in the variant's setupScene.
C29_ResetRestoresConstruction ==
    (probe # << >> /\ probe.fn = "setupUI" /\ probe.last = "reset") =>
        /\ probe.camera.distance = probe.built.distance
        /\ probe.camera.azimuth = probe.built.azimuth
        /\ probe.camera.elevation = probe.built.elevation
        /\ probe.camera.target = probe.built.target


\* C30: in every frame whose fraction is at least one half, every tracked car
\* with a previous sample and a target yaw is rendered with a yaw congruent to
\* the target modulo a full turn; and a car whose current sample differs from
\* the previous one in x or z is rendered at the current sample exactly in
\* the frames whose fraction is 1.
C30_YawCompleteAtHalf ==
    [][(
         FrameStep =>
             \A i \in 1..Len(cars) :
                 LET before == heap[cars[i]]
                     after == heap'[cars[i]]
                 IN  before.oldPosArray # Undefined =>
                         /\ (2 * fractNum' >= duration /\ before.targetRotY # Undefined) =>
                                /\ (after.rotRadY - before.targetRotY[1]) % (2 * PI) = 0
                                /\ after.currentRotY = <<after.rotRadY>>
                         /\ (\/ before.oldPosArray[1] # before.position[1]
                             \/ before.oldPosArray[3] # before.position[3]) =>
                                (after.renderPos = Displayed(before.position)
                                     <=> fractNum' = duration)
       )]_vars

\* C30 witness: a frame at fraction one half has turned a moving car all the
\* way to its target yaw (a quarter turn or more away from yaw 0) and
\* rendered it half-way between its two samples.
C30_Witness ==
    /\ pc = "drawScene"
    /\ 2 * fractNum = duration
    /\ \E i \in 1..Len(cars) :
          LET car == heap[cars[i]]
          IN  /\ car.oldPosArray # Undefined
              /\ car.targetRotY # Undefined
              /\ car.rotRadY = car.targetRotY[1]
              /\ Abs(car.rotRadY) >= 90
              /\ car.renderPos # Undefined
              /\ 2 * car.renderPos[1] = car.oldPosArray[1] + car.position[1]
              /\ car.oldPosArray[1] # car.position[1]


-----------------------------------------------------------------------------
(* SpecOverlap: preloadModel called while earlier calls are still loading.  *)

MaxCalls == 2
MaxBuilds == 4

\* preloadModel up to its first await, called while other calls are between
\* their first await and their return.
PreloadModelCalledMeanwhile(names, boosts) ==
    /\ pending # << >>
    /\ Len(pending) < MaxCalls
    /\ Len(models) + Len(pending) < MaxBuilds
    /\ \E modelName \in names, brightnessBoost \in boosts :
          LET cacheKey == CacheKey(modelName, brightnessBoost)
              call == [modelName |-> modelName, brightnessBoost |-> brightnessBoost]
          IN  IF Has(modelCache, cacheKey)
              THEN /\ returned' = [call |-> call, result |-> <<modelCache[cacheKey]>>,
                                   fetched |-> {}, parsed |-> FALSE, gpu |-> "unused"]
                   /\ pending' = pending
              ELSE /\ pending' = Append(pending, call)
                   /\ returned' = returned
    /\ UNCHANGED <<files, modelCache, models, probe>>
    /\ UNCHANGED page

OverlapFiles ==
    {[n \in LoaderNames |-> [obj |-> FileOk(BodyMesh), mtl |-> m]] :
        m \in {FileOk(BodyMtl), FileNotOk}}

InitOverlap ==
    /\ InitPage
    /\ files \in OverlapFiles
    /\ modelCache = << >>
    /\ models = << >>
    /\ pending = << >>
    /\ returned = << >>
    /\ probe = << >>

NextOverlap ==
    \/ (Len(models) < MaxBuilds /\ PreloadModelCalled(LoaderNames, LoaderBoosts))
    \/ PreloadModelCalledMeanwhile(LoaderNames, LoaderBoosts)
    \/ PreloadModelReturns({"ok"})

SpecOverlap == InitOverlap /\ [][NextOverlap]_vars

\* C31: also when calls overlap, a cached key keeps its handle for ever, a
\* handle is built only for a key that is not cached, and two calls for the
\* same key that return one after the other return the same handle.
C31_OverlappingCallsShareHandle ==
    [][(
         /\ \A k \in DOMAIN modelCache :
                k \in DOMAIN modelCache' /\ modelCache'[k] = modelCache[k]
         /\ models' # models => KeyOf(pending[1]) \notin DOMAIN modelCache
         /\ (/\ returned # << >>
             /\ returned' # returned
             /\ KeyOf(returned'.call) = KeyOf(returned.call)
             /\ returned.result # Null
             /\ returned'.result # Null) => returned'.result = returned.result
       )]_vars


-----------------------------------------------------------------------------
(* The reach of a usemtl line                                               *)

IsPrefix(s, t) == Len(s) <= Len(t) /\ \A i \in 1..Len(s) : s[i] = t[i]

Without(s, i) == SubSeq(s, 1, i - 1) \o SubSeq(s, i + 1, Len(s))

UseMtlTexts == {Null, BodyMtl, BodyGlassMtl}

\* body is defined with a Kd in two of the MTL texts, glass in one of them.
InitUseMtl ==
    /\ InitPage
    /\ InitLoader
    /\ probe \in {[fn |-> "loadObjWithMtl", objString |-> o, mtlString |-> m,
                   brightnessMultiplier |-> 50, out |-> << >>] :
                      o \in SeqsUpTo(ObjLineKinds, MaxObjLines), m \in UseMtlTexts}

SpecUseMtl == InitUseMtl /\ [][NextColor]_vars

Defines(mtl, name) == \E h \in 1..Len(mtl) : mtl[h].op = "newmtl" /\ mtl[h].name = name

\* C32: when loadObjWithMtl returns, the colours of the face vertices read up
\* to any line are those a file ending at that line gives (a later usemtl
\* changes none of them); the face vertices above the first usemtl line are
\* gray; and a usemtl line naming a material the MTL text does not define can
\* be deleted without changing any colour.
C32_UseMtlColorsFollowingFaces ==
    (LoadObjWithMtlApplied /\ ~probe.out[1].thrown) =>
        LET obj == probe.objString
            mtl == probe.mtlString
            b == probe.brightnessMultiplier
            a_color == probe.out[1].arrays.a_color
        IN  /\ \A k \in 0..Len(obj) :
                  (k = Len(obj) \/ obj[k + 1].op = "usemtl") =>
                      LET upTo == LoadObjWithMtl(SubSeq(obj, 1, k), mtl, b)
                      IN  /\ ~upTo.thrown
                          /\ IsPrefix(upTo.arrays.a_color, a_color)
                          /\ Len(upTo.arrays.a_color) = EmittedAbove(obj, k + 1)
            /\ \A i \in 1..Len(obj) :
                  (obj[i].op = "f" /\ \A u \in 1..(i - 1) : obj[u].op # "usemtl") =>
                      \A k \in 1..Len(obj[i].verts) :
                          a_color[EmittedAbove(obj, i) + k] = <<60, 60, 60, One>>
            /\ \A i \in 1..Len(obj) :
                  (obj[i].op = "usemtl" /\ ~Defines(mtl, obj[i].name)) =>
                      LoadObjWithMtl(Without(obj, i), mtl, b).arrays.a_color = a_color

\* C32 witness: a gray face, then a usemtl of body, a usemtl of glass, which
\* the MTL text does not define, and a face in body's colour.
C32_Witness ==
    /\ LoadObjWithMtlApplied
    /\ ~probe.out[1].thrown
    /\ probe.brightnessMultiplier = 50
    /\ probe.objString = <<VLine(<<100, 0, 0>>), FLine(<<1, 1>>), UseMtlLine("body"),
                           UseMtlLine("glass"), FLine(<<1, 1>>)>>
    /\ ~Defines(probe.mtlString, "glass")
    /\ probe.out[1].arrays.a_color =
           <<Gray, Gray, <<40, 20, 0, One>>, <<40, 20, 0, One>>>>


-----------------------------------------------------------------------------
(* Polls                                                                    *)

\* The step in which drawScene issues a poll.
PollIssued == pc' = "update" /\ pc # "update"

\* C33: a poll is issued only by a frame, a frame runs only when no poll is
\* outstanding, and while a poll is outstanding no frame is registered, so
\* that no second poll can be issued before the first has resolved; the cars
\* and lights snapshots change only in the getCars and getTrafficLights steps
\* of the one outstanding poll (or of startup), in the order of the requests.
C33_OnePollInFlight ==
    [][(
         /\ PollIssued => (pc = "drawScene" /\ FrameStep)
         /\ FrameStep => pc \notin PollStates
         /\ pc \in PollStates => (~rafPending /\ then' = then /\ ~PollIssued)
         /\ lastCars' # lastCars => pc \in {"main.getCars", "update.getCars"}
         /\ lastLights' # lastLights =>
                pc \in {"main.getTrafficLights", "update.getTrafficLights"}
         /\ pc = "update.getTrafficLights" => lastCars' = lastCars
       )]_vars

\* C33 witness: the poll issued by the frame at 2000 is outstanding, its
\* advance call answered; an earlier poll moved a car; no frame is
\* registered.
C33_Witness ==
    /\ pc = "update.getCars"
    /\ then = 2000
    /\ elapsed = 0
    /\ ~rafPending
    /\ lastCars # << >>
    /\ \E i \in 1..Len(cars) : heap[cars[i]].oldPosArray # heap[cars[i]].position


\* C34: `then - elapsed` is the timestamp of the frame that issued the last
\* poll: a frame that issues a poll leaves elapsed = 0, every other step
\* leaves then - elapsed as it was, and a frame issues a poll only when its
\* timestamp is at least the interval later than that of the frame that
\* issued the poll before it.
C34_PollsAnIntervalApart ==
    [][(
         /\ PollIssued => (elapsed' = 0 /\ then' - (then - elapsed) >= duration)
         /\ ~PollIssued => then' - elapsed' = then - elapsed
       )]_vars

\* C34 witness: a poll issued by the frame at 1000 moved a car, a frame was
\* drawn at 1250 or not, and the frame at 1500 has issued the next poll.
C34_Witness ==
    /\ pc = "update"
    /\ then = 1500
    /\ elapsed = 0
    /\ \E i \in 1..Len(cars) : heap[cars[i]].oldPosArray # heap[cars[i]].position


\* What C35 says of the frame that issues a poll: its fraction is 1 and it
\* renders every tracked car at its current sample, at the display offset.
PollFrameDrawsCurrent ==
    PollIssued =>
        /\ fractNum' = duration
        /\ \A r \in Range(cars) : heap'[r].renderPos = Displayed(heap'[r].position)

\* C35 (as stated): a poll is issued only by a frame of fraction 1, which
\* renders every tracked car at its current sample, and the previous sample a
\* poll's snapshot installs in a tracked car is the position at which the car
\* was last drawn.
C35_PreviousSampleIsLastDrawn ==
    [][(
         /\ PollFrameDrawsCurrent
         /\ (GetCarsApplied /\ pc = "update.getCars") =>
                \A r \in Range(cars) \cap Range(cars') :
                    Displayed(heap'[r].oldPosArray) = heap[r].renderPos
       )]_vars

\* C35 (amended): the same, the previous sample being that of the tracked
\* cars whose id the snapshot lists exactly once.
C35_PreviousSampleIsLastDrawnListedOnce ==
    [][(
         /\ PollFrameDrawsCurrent
         /\ (GetCarsApplied /\ pc = "update.getCars") =>
                \A r \in Range(cars) \cap Range(cars') :
                    Cardinality(Occurrences(lastCars'[1], heap[r].id)) = 1 =>
                        Displayed(heap'[r].oldPosArray) = heap[r].renderPos
       )]_vars

\* C35 witness: a poll issued at fraction 1 has moved a car that an earlier
\* poll had moved before: its previous sample, at the display offset, is
\* where it was drawn last, away from its sample before that and from its
\* new position.
C35_Witness ==
    /\ pc = "update.getTrafficLights"
    /\ fractNum = duration
    /\ then > 1000
    /\ Len(lastCars[1]) = 1
    /\ \E i \in 1..Len(cars) :
          /\ heap[cars[i]].renderPos = Displayed(heap[cars[i]].oldPosArray)
          /\ heap[cars[i]].oldPosArray # heap[cars[i]].position


\* C36: with a car model loaded, after every updateCars the car entities of
\* scene.objects are the objects of `cars`, each once, and the other
\* entities of the scene are the same as before, in the same order.
C36_SceneCarsAreTrackedCars ==
    [][(
         (ReconcileStep /\ loaded \cap Range(CAR_MODELS) # {}) =>
             /\ Range(SceneOf(heap', sceneObjects', "car")) = Range(cars')
             /\ Len(SceneOf(heap', sceneObjects', "car")) = Cardinality(Range(cars'))
             /\ SelectSeq(sceneObjects', LAMBDA r : heap'[r].kind # "car")
                    = SelectSeq(sceneObjects, LAMBDA r : heap[r].kind # "car")
       )]_vars


-----------------------------------------------------------------------------
(* SpecLights: lights snapshots that list different ids.  No car; every     *)
(* model loaded; a snapshot lists l1, l2, both, one twice, or nothing.      *)

LightsSnapshots ==
    Snapshots(SeqsUpTo({LightEntry("l1", <<200, 0, 0>>, TRUE),
                        LightEntry("l1", <<200, 0, 0>>, FALSE),
                        LightEntry("l2", <<0, 0, 200>>, TRUE)}, MaxSnapLen))
    \cup Failed({"notOk"})

LightsClock == {1000, 1500}

NextLights ==
    \/ PreloadAllModels({AllModels})
    \/ InitTrafficModel(Failed({"ok"}))
    \/ GetCarsReturns(Snapshots({<< >>}), "main.getCars", "getObstacles")
    \/ GetObstacles(Snapshots({City.obstacles}))
    \/ MainGetTrafficLights(LightsSnapshots)
    \/ GetRoads(Snapshots({City.roads}))
    \/ GetDestinations(Snapshots({City.destinations}), {<<FALSE>>}, FirstModel)
    \/ DrawScene({t \in LightsClock : t >= then})
    \/ UpdateFails({"notOk"}, FirstModel)
    \/ UpdateReturns
    \/ GetCarsReturns(Snapshots({<< >>}), "update.getCars", "update.getTrafficLights")
    \/ UpdateGetTrafficLights(LightsSnapshots, FirstModel)

SpecLights == Init /\ [][NextLights]_vars

LightIds(h, ls) == [i \in 1..Len(ls) |-> h[ls[i]].id]

\* C37: once a light is tracked the tracked lights stay the same objects with
\* the same ids, whatever a later snapshot lists: an id not tracked adds
\* nothing, a tracked light the snapshot does not list keeps its state; the
\* first non-empty snapshot is tracked entry by entry; and after setup the
\* light entities and the indicator spheres in the scene stay the same.
C37_TrackedLightsFixed ==
    [][(
         /\ Len(trafficLights) > 0 =>
              /\ trafficLights' = trafficLights
              /\ LightIds(heap', trafficLights') = LightIds(heap, trafficLights)
         /\ (GetTrafficLightsApplied /\ Len(trafficLights) > 0) =>
              \A i \in 1..Len(trafficLights) :
                  Occurrences(lastLights'[1], heap[trafficLights[i]].id) = {} =>
                      /\ heap'[trafficLights[i]].state = heap[trafficLights[i]].state
                      /\ heap'[trafficLights[i]].color = heap[trafficLights[i]].color
         /\ (GetTrafficLightsApplied /\ Len(trafficLights) = 0) =>
              LightIds(heap', trafficLights')
                  = [i \in 1..Len(lastLights'[1]) |-> lastLights'[1][i].id]
         /\ pc \notin StartupStates =>
              /\ SceneOf(heap', sceneObjects', "light") = SceneOf(heap, sceneObjects, "light")
              /\ SceneOf(heap', sceneObjects', "sphere") = SceneOf(heap, sceneObjects, "sphere")
              /\ DOMAIN trafficLightSpheres' = DOMAIN trafficLightSpheres
       )]_vars

\* C37 witness: only l1 is tracked, as a red light drawn in the scene with its
\* sphere; the snapshot of the poll just reconciled lists l2 and not l1.
C37_Witness ==
    /\ pc = "drawScene"
    /\ then >= 1000
    /\ lastKind = "ok"
    /\ LightIds(heap, trafficLights) = <<"l1">>
    /\ heap[trafficLights[1]].state = FALSE
    /\ Len(lastLights[1]) > 0
    /\ \A i \in 1..Len(lastLights[1]) : lastLights[1][i].id = "l2"
    /\ Len(SceneOf(heap, sceneObjects, "light")) = 1
    /\ Len(SceneOf(heap, sceneObjects, "sphere")) = 1


-----------------------------------------------------------------------------
(* SpecIsolation: the loader's entry points called one after another.      *)
(* loadMtl(mtlString) without a target writes the module's                 *)
(* currentMaterials; loadObjWithMtl is called with every combination of    *)
(* its arguments before, between and after.  probe keeps currentMaterials, *)
(* the first result of every argument triple and the latest call.          *)

MaxLoads == 3

\* body in another colour than BodyGlassMtl gives it.
BlueBodyMtl == <<NewMtlLine("body"), KdLine(<<0, 0, 90>>)>>

IsolationObjs ==
    {<<VLine(<<100, 0, 0>>), FLine(<<1, 1>>)>>,
     <<VLine(<<100, 0, 0>>), UseMtlLine("body"), FLine(<<1, 1>>)>>,
     <<VLine(<<100, 0, 0>>), FLine(<<1>>), UseMtlLine("glass"), FLine(<<1>>)>>}

IsolationMtls == {Null, BodyGlassMtl, BodyOnlyMtl, BlueBodyMtl}

IsolationBoosts == {50, 150}

InitIsolation ==
    /\ InitPage
    /\ InitLoader
    /\ probe = [fn |-> "obj_loader", currentMaterials |-> << >>, results |-> << >>,
                last |-> << >>, again |-> FALSE, calls |-> 0]

\* loadMtl(mtlString): targetMaterials is null, the materials are written
\* into currentMaterials.
LoadMtlCalled(mtls) ==
    /\ probe # << >>
    /\ probe.fn = "obj_loader"
    /\ probe.calls < MaxLoads
    /\ \E m \in mtls :
          probe' = [probe EXCEPT
                       !.currentMaterials = LoadMtl(m, 1, probe.currentMaterials, Undefined),
                       !.calls = @ + 1]
    /\ UNCHANGED <<files, modelCache, models, pending, returned>>
    /\ UNCHANGED page

\* loadObjWithMtl(objString, mtlString, brightnessMultiplier) called and
\* returning; it writes nothing outside its own locals.
LoadObjWithMtlCalled(objs, mtls, boosts) ==
    /\ probe # << >>
    /\ probe.fn = "obj_loader"
    /\ probe.calls < MaxLoads
    /\ \E o \in objs, m \in mtls, b \in boosts :
          LET args == [objString |-> o, mtlString |-> m, brightnessMultiplier |-> b]
              out == LoadObjWithMtl(o, m, b)
              known == args \in DOMAIN probe.results
          IN  probe' = [probe EXCEPT
                           !.results = IF known THEN @
                                       ELSE Extend(@, args,
                                                   [out |-> out,
                                                    seen |-> probe.currentMaterials]),
                           !.last = <<[args |-> args, out |-> out]>>,
                           !.again = known /\ probe.results[args].seen # probe.currentMaterials,
                           !.calls = @ + 1]
    /\ UNCHANGED <<files, modelCache, models, pending, returned>>
    /\ UNCHANGED page

NextIsolation ==
    \/ LoadMtlCalled(IsolationMtls \ {Null})
    \/ LoadObjWithMtlCalled(IsolationObjs, IsolationMtls, IsolationBoosts)

SpecIsolation == InitIsolation /\ [][NextIsolation]_vars

-----------------------------------------------------------------------------
(* SpecLighting: the variant that lights the scene with the sun and one     *)
(* light per traffic light.  Its main() asks for the traffic lights once,   *)
(* every frame builds the lights with buildLightsArray() and hands them to  *)
(* drawObject, and every poll asks for the traffic lights again.  The       *)
(* server reports none, one, two, or as many lights as the shader's arrays  *)
(* hold, one fewer or one more, all green or all red.                       *)

\* #define MAX_LIGHTS 17
MAX_LIGHTS == 17

\* const lightingConfig: positions in hundredths, colours and intensities in
\* hundredths.
lightingConfig ==
    [sun |-> [position |-> <<1500, 3000, 1500>>,
              color |-> <<100, 100, 90, 100>>,
              intensity |-> 110],
     trafficLightIntensity |-> 5]

\* function buildLightsArray(): the sun, then one light per tracked traffic
\* light, half a cell above it, green or red by its state.
BuildLightsArray(h, ls) ==
    [count |-> 1 + Len(ls),
     positions |-> <<lightingConfig.sun.position>>
                   \o [i \in 1..Len(ls) |->
                         <<h[ls[i]].position[1], h[ls[i]].position[2] + 50,
                           h[ls[i]].position[3]>>],
     colors |-> <<lightingConfig.sun.color>>
                \o [i \in 1..Len(ls) |->
                      IF h[ls[i]].state THEN <<0, 100, 0, 100>> ELSE <<100, 0, 0, 100>>],
     intensities |-> <<lightingConfig.sun.intensity>>
                     \o [i \in 1..Len(ls) |-> lightingConfig.trafficLightIntensity]]

ReportedCounts == {0, 1, 2, MAX_LIGHTS - 1, MAX_LIGHTS, MAX_LIGHTS + 1}

LightsReport(n, state) ==
    [i \in 1..n |-> LightEntry("l" \o ToString(i), <<100 * i, 0, 0>>, state)]

LightingLights ==
    Snapshots({LightsReport(n, st) : n \in ReportedCounts, st \in BOOLEAN})
    \cup Failed({"notOk"})

InitLighting ==
    /\ InitPage
    /\ InitLoader
    /\ probe = [fn |-> "buildLightsArray", at |-> "main", lights |-> << >>]

\* getTrafficLights() as main() and update() await it.
LightingGetTrafficLights(responses, at) ==
    /\ probe # << >>
    /\ probe.fn = "buildLightsArray"
    /\ probe.at = at
    /\ \E resp \in responses :
          LET st == GetTrafficLights(heap, trafficLights, resp)
          IN  /\ heap' = st.heap
              /\ trafficLights' = st.lights
              /\ lastKind' = resp.kind
              /\ lastLights' = IF resp.kind = "ok" THEN <<resp.positions>>
                               ELSE lastLights
    /\ probe' = [probe EXCEPT !.at = "drawScene"]
    /\ UNCHANGED <<pc, cars, statics, sceneVars, loaded, timing, escaped, lastCars,
                   sameCars>>
    /\ UNCHANGED <<files, modelCache, models, pending, returned>>

\* drawScene(): const lights = buildLightsArray(), handed to drawObject as
\* u_numLights: lights.count, u_lightPositions, u_lightColors,
\* u_lightIntensities; the frame polls when the interval has elapsed.
LightingDrawScene ==
    /\ probe # << >>
    /\ probe.fn = "buildLightsArray"
    /\ probe.at = "drawScene"
    /\ \E polls \in BOOLEAN :
          probe' = [probe EXCEPT !.lights = <<BuildLightsArray(heap, trafficLights)>>,
                                 !.at = IF polls THEN "update" ELSE "drawScene"]
    /\ UNCHANGED page
    /\ UNCHANGED <<files, modelCache, models, pending, returned>>

NextLighting ==
    \/ LightingGetTrafficLights(LightingLights, "main")
    \/ LightingDrawScene
    \/ LightingGetTrafficLights(LightingLights, "update")

SpecLighting == InitLighting /\ [][NextLighting]_vars

LightingFrame == probe.at = "drawScene" /\ probe'.lights # << >>

\* C39: in every frame the light count handed to the shader is 1 + the
\* number of tracked traffic lights and is at most MAX_LIGHTS.
C39_LightCountWithinCapacity ==
    [][(LightingFrame =>
          /\ probe'.lights[1].count = 1 + Len(trafficLights)
          /\ probe'.lights[1].count <= MAX_LIGHTS)]_vars


-----------------------------------------------------------------------------
(* SpecAsync: the variant whose setupObjects is async and is not awaited.   *)
(* main() awaits the startup calls, calls setupObjects(), which creates the *)
(* base cube and suspends at its first fetch, and calls drawScene(): then   *)
(* is 0, so the first frame issues the first poll.  From there two things   *)
(* run interleaved: the eight fetches of setupObjects (material file and    *)
(* mesh text of two buildings and two cars, one after the other) and the    *)
(* polls, each followed by setupCar for every tracked car.  The server      *)
(* reports no road, obstacle, light or destination.                         *)

\* carModelIndex grows with every car that gets a model: at most this many.
MaxSetups == 3

ASYNC_CAR_MODELS == <<"JapanCar", "CanaryCruiser">>

\* The awaits of setupObjects in order: loadMtlFile, then loadObjModel.
AsyncLoads ==
    <<[fn |-> "loadMtlFile", model |-> "sushi_restaurant"],
      [fn |-> "loadObjModel", model |-> "sushi_restaurant"],
      [fn |-> "loadMtlFile", model |-> "SushiMini"],
      [fn |-> "loadObjModel", model |-> "SushiMini"],
      [fn |-> "loadMtlFile", model |-> "JapanCar"],
      [fn |-> "loadObjModel", model |-> "JapanCar"],
      [fn |-> "loadMtlFile", model |-> "CanaryCruiser"],
      [fn |-> "loadObjModel", model |-> "CanaryCruiser"]>>

AsyncCars ==
    Snapshots(SeqsUpTo({CarEntry("c1", <<0, 0, 0>>, "Up"),
                        CarEntry("c2", <<100, 0, 0>>, "Up")}, MaxSnapLen))
    \cup Failed({"notOk"})

InitAsync ==
    /\ InitPage
    /\ InitLoader
    /\ probe = [fn |-> "setupObjects", at |-> "main", awaiting |-> 0, texts |-> {},
                carModels |-> << >>, carModelIndex |-> 0]

\* function setupCar(car): a car without a vao gets the next car model, or
\* the base cube when carModels is empty, and is added to the scene.
SetupCar(st, ref) ==
    IF st.heap[ref].vao # NoMesh THEN st
    ELSE IF Len(st.carModels) > 0
    THEN [st EXCEPT
            !.heap[ref].vao = st.carModels[(st.carModelIndex % Len(st.carModels)) + 1],
            !.carModelIndex = @ + 1,
            !.objs = AddObject(st.heap, @, ref)]
    ELSE [st EXCEPT !.heap[ref].vao = CubeMesh,
                    !.objs = AddObject(st.heap, @, ref)]

\* for (const car of cars) { setupCar(car); setCarRotation(car); }
RECURSIVE SetupTrackedCars(_, _, _)
SetupTrackedCars(st, cs, i) ==
    IF i > Len(cs) THEN st
    ELSE SetupTrackedCars(SetupCar(st, cs[i]), cs, i + 1)

\* main(): the startup getCars; setupObjects() up to its first await;
\* drawScene(), whose first frame has elapsed >= duration and polls.
AsyncMain(responses) ==
    /\ probe # << >>
    /\ probe.fn = "setupObjects"
    /\ probe.at = "main"
    /\ \E resp \in responses :
          LET st == GetCars(heap, cars, resp)
          IN  /\ cars' = st.cars
              /\ heap' = st.heap
              /\ lastKind' = resp.kind
              /\ lastCars' = IF resp.kind = "ok" THEN <<resp.positions>> ELSE lastCars
    /\ probe' = [probe EXCEPT !.at = "update", !.awaiting = 1]
    /\ UNCHANGED <<pc, trafficLights, statics, sceneVars, loaded, timing, escaped,
                   lastLights, sameCars>>
    /\ UNCHANGED <<files, modelCache, models, pending, returned>>

\* setupObjects resumes from the fetch it awaits; after the last one the
\* car models whose mesh text arrived are pushed to carModels.
AsyncFetchReturns(outcomes) ==
    /\ probe # << >>
    /\ probe.fn = "setupObjects"
    /\ probe.awaiting \in 1..Len(AsyncLoads)
    /\ \E ok \in outcomes :
          LET load == AsyncLoads[probe.awaiting]
              texts == IF ok /\ load.fn = "loadObjModel"
                       THEN probe.texts \cup {load.model} ELSE probe.texts
          IN  probe' = [probe EXCEPT
                           !.awaiting = @ + 1,
                           !.texts = texts,
                           !.carModels =
                               IF probe.awaiting = Len(AsyncLoads)
                               THEN SelectSeq(ASYNC_CAR_MODELS, LAMBDA m : m \in texts)
                               ELSE @]
    /\ UNCHANGED page
    /\ UNCHANGED <<files, modelCache, models, pending, returned>>

\* drawScene() resumes after `await update()`: the cars snapshot of the poll
\* is applied (nothing when the poll failed), then every tracked car goes
\* through setupCar.
AsyncUpdateReturns(responses) ==
    /\ probe # << >>
    /\ probe.fn = "setupObjects"
    /\ probe.at = "update"
    /\ \E resp \in responses :
          LET got == GetCars(heap, cars, resp)
              st == SetupTrackedCars([heap |-> got.heap, objs |-> sceneObjects,
                                      carModels |-> probe.carModels,
                                      carModelIndex |-> probe.carModelIndex],
                                     got.cars, 1)
          IN  /\ st.carModelIndex <= MaxSetups
              /\ cars' = got.cars
              /\ sceneObjects' = st.objs
              /\ heap' = Live(st.heap, Range(got.cars) \cup Range(st.objs))
              /\ probe' = [probe EXCEPT !.at = "drawScene",
                                        !.carModelIndex = st.carModelIndex]
              /\ lastKind' = resp.kind
              /\ lastCars' = IF resp.kind = "ok" THEN <<resp.positions>> ELSE lastCars
    /\ UNCHANGED <<pc, trafficLights, statics, trafficLightSpheres, loaded, timing,
                   escaped, lastLights, sameCars>>
    /\ UNCHANGED <<files, modelCache, models, pending, returned>>

\* drawScene(), the frame on which the interval has elapsed: the next poll.
AsyncDrawScene ==
    /\ probe # << >>
    /\ probe.fn = "setupObjects"
    /\ probe.at = "drawScene"
    /\ probe' = [probe EXCEPT !.at = "update"]
    /\ UNCHANGED page
    /\ UNCHANGED <<files, modelCache, models, pending, returned>>

NextAsync ==
    \/ AsyncMain(AsyncCars)
    \/ AsyncFetchReturns(BOOLEAN)
    \/ AsyncUpdateReturns(AsyncCars)
    \/ AsyncDrawScene

SpecAsync == InitAsync /\ [][NextAsync]_vars

\* C40: once setupObjects has finished with at least one car model loaded,
\* no tracked car that setupCar has set up has the fallback cube mesh.
C40_CubeOnlyWithoutCarModel ==
    (/\ probe.awaiting > Len(AsyncLoads)
     /\ probe.carModels # << >>) =>
        \A i \in 1..Len(cars) : heap[cars[i]].vao # CubeMesh

====
